---- MODULE Spec2Model ----
(***************************************************************************)
(* k8s-memory-watch: the memory analysis and reporting engine.             *)
(*                                                                         *)
(* The aggregation of container samples into pod samples, the status       *)
(* classifier, the limit-consistency analyser, the analysis reporter, the  *)
(* CSV renderer and the monitoring loop, each translated from its Go       *)
(* source.  The pure functions are operators; each specification below     *)
(* draws their inputs from bounded sets and applies them.                  *)
(*                                                                         *)
(* Optional values (Go pointers and map lookups) are sequences of length   *)
(* at most one: <<>> is nil / absent, <<v>> is a present value v.          *)
(* Percentages (float64 in Go) are exact rationals [num, den]; within the  *)
(* byte ranges used here the float comparison against 95.0, 90.0 and the   *)
(* warning percentages used below agrees with the exact comparison.        *)
(***************************************************************************)
EXTENDS Integers, Sequences, FiniteSets, TLC

VARIABLES
    pod,        \* the raw corev1.Pod handed to processPodMemoryInfo
    metrics,    \* its *PodMetrics (optional)
    podInfo,    \* the PodMemoryInfo sample under inspection (optional)
    limStates,  \* the result of limitState(podInfo) (optional)
    cfg,        \* the *config.Config in use
    calculated, \* CalculateUsagePercent has run on podInfo
    status,     \* the result of getMemoryStatus(podInfo, cfg) (optional)
    analysis,   \* the AnalysisResult handed to PrintAnalysis (optional)
    shownHigh,  \* pods printed in the High Memory Usage section
    shownWarn,  \* pods printed in the Warning Level section
    printed,    \* PrintAnalysis has run
    report,     \* the MemoryReport handed to the CSV formatter (optional)
    showHeader, \* the showHeader argument of FormatReport
    failFrom,   \* the csv.Writer returns an error from this Write on (0: never)
    writes,     \* the calls of csv.Writer.Write, in order
    rendered,   \* FormatReport has run
    cluster,    \* what the API server answers to the collector (optional)
    collected,  \* the result of getAllNamespacesPodsMemoryInfo (optional)
    nsCollected,  \* what getNamespacePodsMemoryInfo returned for each namespace
    env,        \* the environment variables LoadWithCLI reads
    cli,        \* the CLIConfig passed to LoadWithCLI (optional: nil)
    loaded,     \* what LoadWithCLI returned (optional)
    symbol,     \* what podStatusSymbol returned (optional)
    annotationInput,  \* the pod's annotations and the requested keys
    annotationLines,  \* what formatRequestedAnnotations returned (optional)
    pc,         \* where main is: "health", "initial", "loop", "done"
    csvHeaderPrinted,  \* main.go's package variable
    cycles,     \* calls of runMemoryCheck so far
    renders,    \* calls of PrintCSV so far
    cancelled,  \* the context is cancelled
    sigChan     \* signals waiting in the buffered channel (0 or 1)

podVars == <<pod, metrics, podInfo, limStates, calculated, status, symbol>>
analysisVars == <<analysis, shownHigh, shownWarn, printed>>
csvVars == <<report, showHeader, failFrom, writes, rendered>>
collectVars == <<cluster, collected, nsCollected>>
configVars == <<env, cli, loaded>>
annotationVars == <<annotationInput, annotationLines>>
mainVars == <<pc, csvHeaderPrinted, cycles, renders, cancelled, sigChan>>

vars == <<pod, metrics, podInfo, limStates, cfg, calculated, status, symbol,
          analysis, shownHigh, shownWarn, printed,
          report, showHeader, failFrom, writes, rendered,
          cluster, collected, nsCollected, env, cli, loaded,
          annotationInput, annotationLines,
          pc, csvHeaderPrinted, cycles, renders, cancelled, sigChan>>

----------------------------------------------------------------------------
(* Optional values *)

Nil == <<>>
Some(v) == <<v>>
Has(o) == Len(o) > 0
Val(o) == o[1]
Opt(S) == {Nil} \cup {Some(v) : v \in S}

RECURSIVE SeqsUpTo(_, _)
SeqsUpTo(S, n) ==
    IF n = 0 THEN {<<>>}
    ELSE LET shorter == SeqsUpTo(S, n - 1)
         IN shorter \cup {Append(s, x) : s \in {t \in shorter : Len(t) = n - 1}, x \in S}

----------------------------------------------------------------------------
(* Bounds and input domains *)

MaxContainers == 2

ContainerNames == <<"a", "b", "c", "d">>
RequestValues == {0, 2}
LimitValues == {4}
UsageValues == {0, 3}
\* a metrics entry whose name matches no container of the pod spec
ForeignName == "x"

\* the fields of config.Config the engine reads
Config(warn, labels, annotations, output) ==
    [MemoryWarningPercent |-> warn, Labels |-> labels,
     Annotations |-> annotations, Output |-> output]

DefaultWarningPercent == 80
DefaultConfig == Config(DefaultWarningPercent, <<>>, <<>>, "table")

----------------------------------------------------------------------------
(* internal/k8s/memory.go *)

\* metricsByName[name]: the usage of the last metrics entry with that name;
\* a missing entry gives the nil ResourceList, hence no memory value.
RECURSIVE metricsByName(_, _)
metricsByName(ms, name) ==
    IF Len(ms) = 0 THEN Nil
    ELSE IF ms[Len(ms)].Name = name THEN ms[Len(ms)].Usage
    ELSE metricsByName(SubSeq(ms, 1, Len(ms) - 1), name)

processContainerMemoryInfo(container, usage) ==
    LET info == [ContainerName |-> container.Name,
                 CurrentUsage |-> usage,
                 MemoryRequest |-> container.Requests,
                 MemoryLimit |-> container.Limits,
                 UsagePercent |-> Nil,
                 LimitUsagePercent |-> Nil]
    IN [info |-> info,
        req |-> IF Has(container.Requests) THEN Val(container.Requests) ELSE 0,
        lim |-> IF Has(container.Limits) THEN Val(container.Limits) ELSE 0,
        hasReq |-> Has(info.MemoryRequest),
        hasLim |-> Has(info.MemoryLimit)]

isPodReady(p) ==
    LET idx == {i \in 1..Len(p.Conditions) : p.Conditions[i].Type = "Ready"}
    IN IF idx = {} THEN FALSE
       ELSE LET first == CHOOSE i \in idx : \A j \in idx : i <= j
            IN p.Conditions[first].Status = "True"

\* the loop over pod.Spec.Containers (memory.go 242-251)
RECURSIVE aggregateContainers(_, _, _)
aggregateContainers(containers, ms, n) ==
    IF n = 0
    THEN [totalRequest |-> 0, totalLimit |-> 0,
          hasRequest |-> TRUE, hasLimit |-> TRUE, Containers |-> <<>>]
    ELSE LET acc == aggregateContainers(containers, ms, n - 1)
             r == processContainerMemoryInfo(containers[n],
                                             metricsByName(ms, containers[n].Name))
         IN [totalRequest |-> acc.totalRequest + r.req,
             totalLimit |-> acc.totalLimit + r.lim,
             hasRequest |-> acc.hasRequest /\ r.hasReq,
             hasLimit |-> acc.hasLimit /\ r.hasLim,
             Containers |-> Append(acc.Containers, r.info)]

\* the loop over metrics.Containers (memory.go 263-269)
RECURSIVE totalUsage(_)
totalUsage(ms) ==
    IF Len(ms) = 0 THEN 0
    ELSE totalUsage(SubSeq(ms, 1, Len(ms) - 1))
         + (IF Has(ms[Len(ms)].Usage) THEN Val(ms[Len(ms)].Usage) ELSE 0)

podCurrentUsage(m) ==
    IF Has(m)
    THEN IF totalUsage(Val(m).Containers) > 0
         THEN Some(totalUsage(Val(m).Containers))
         ELSE Nil
    ELSE Nil

\* a variant that reports the sum of the values that are declared
processPodMemoryInfoPartialSums(p, m) ==
    LET ms == IF Has(m) THEN Val(m).Containers ELSE <<>>
        acc == aggregateContainers(p.Containers, ms, Len(p.Containers))
    IN [Namespace |-> p.Namespace,
        PodName |-> p.Name,
        Phase |-> p.Phase,
        Ready |-> isPodReady(p),
        Labels |-> p.Labels,
        Annotations |-> p.Annotations,
        Containers |-> acc.Containers,
        MemoryRequest |-> IF acc.totalRequest > 0 THEN Some(acc.totalRequest) ELSE Nil,
        MemoryLimit |-> IF acc.totalLimit > 0 THEN Some(acc.totalLimit) ELSE Nil,
        CurrentUsage |-> podCurrentUsage(m),
        UsagePercent |-> Nil,
        LimitUsagePercent |-> Nil]

processPodMemoryInfo(p, m) ==
    LET ms == IF Has(m) THEN Val(m).Containers ELSE <<>>
        acc == aggregateContainers(p.Containers, ms, Len(p.Containers))
    IN [Namespace |-> p.Namespace,
        PodName |-> p.Name,
        Phase |-> p.Phase,
        Ready |-> isPodReady(p),
        Labels |-> p.Labels,
        Annotations |-> p.Annotations,
        Containers |-> acc.Containers,
        MemoryRequest |-> IF acc.hasRequest THEN Some(acc.totalRequest) ELSE Nil,
        MemoryLimit |-> IF acc.hasLimit THEN Some(acc.totalLimit) ELSE Nil,
        CurrentUsage |-> podCurrentUsage(m),
        UsagePercent |-> Nil,
        LimitUsagePercent |-> Nil]

----------------------------------------------------------------------------
(* internal/k8s/memory.go: namespaces *)

\* metricsMap[name]: the last PodMetrics of that name, nil without one
RECURSIVE metricsMap(_, _)
metricsMap(items, name) ==
    IF Len(items) = 0 THEN Nil
    ELSE IF items[Len(items)].Name = name THEN Some(items[Len(items)])
    ELSE metricsMap(SubSeq(items, 1, Len(items) - 1), name)

EmptySummary ==
    [Timestamp |-> 0, NamespaceCount |-> 0, TotalPods |-> 0, RunningPods |-> 0,
     PodsWithMetrics |-> 0, PodsWithLimits |-> 0, PodsWithRequests |-> 0,
     TotalMemoryUsage |-> 0, TotalMemoryLimit |-> 0, TotalMemoryRequest |-> 0]

\* what one pod adds to a count, and to a byte total
countIf(cond) == IF cond THEN 1 ELSE 0
bytesOf(quantity) == IF Has(quantity) THEN Val(quantity) ELSE 0

\* a variant that counts every pod as one with a request and a limit
addPodCountingAll(summary, phase, info) ==
    [summary EXCEPT
        !.RunningPods = @ + countIf(phase = "Running"),
        !.PodsWithMetrics = @ + countIf(Has(info.CurrentUsage)),
        !.TotalMemoryUsage = @ + bytesOf(info.CurrentUsage),
        !.PodsWithRequests = @ + 1,
        !.TotalMemoryRequest = @ + bytesOf(info.MemoryRequest),
        !.PodsWithLimits = @ + 1,
        !.TotalMemoryLimit = @ + bytesOf(info.MemoryLimit)]

\* the summary after one more pod (memory.go 168-183)
addPod(summary, phase, info) ==
    [summary EXCEPT
        !.RunningPods = @ + countIf(phase = "Running"),
        !.PodsWithMetrics = @ + countIf(Has(info.CurrentUsage)),
        !.TotalMemoryUsage = @ + bytesOf(info.CurrentUsage),
        !.PodsWithRequests = @ + countIf(Has(info.MemoryRequest)),
        !.TotalMemoryRequest = @ + bytesOf(info.MemoryRequest),
        !.PodsWithLimits = @ + countIf(Has(info.MemoryLimit)),
        !.TotalMemoryLimit = @ + bytesOf(info.MemoryLimit)]

appendPod(acc, phase, info) ==
    [podInfos |-> Append(acc.podInfos, info),
     summary |-> addPod(acc.summary, phase, info)]

\* the loop over pods.Items (memory.go 163-184)
RECURSIVE foldPods(_, _, _)
foldPods(pods, items, n) ==
    IF n = 0 THEN [podInfos |-> <<>>, summary |-> EmptySummary]
    ELSE appendPod(foldPods(pods, items, n - 1), pods[n].Phase,
                   processPodMemoryInfo(pods[n], metricsMap(items, pods[n].Name)))

\* a variant that gives the namespace up when its metrics cannot be fetched
getNamespaceOrFailOnMetrics(ns) ==
    IF ns.PodsErr \/ ns.MetricsErr THEN [pods |-> <<>>, summary |-> Nil, err |-> TRUE]
    ELSE [pods |-> foldPods(ns.Pods, ns.PodMetrics, Len(ns.Pods)).podInfos,
          summary |-> Some(foldPods(ns.Pods, ns.PodMetrics, Len(ns.Pods)).summary),
          err |-> FALSE]

\* ns: what the API server answers for one namespace: the pod list or an
\* error, the PodMetrics list or an error
getNamespacePodsMemoryInfo(ns) ==
    IF ns.PodsErr THEN [pods |-> <<>>, summary |-> Nil, err |-> TRUE]
    ELSE LET items == IF ns.MetricsErr THEN <<>> ELSE ns.PodMetrics
             acc == foldPods(ns.Pods, items, Len(ns.Pods))
         IN [pods |-> acc.podInfos, summary |-> Some(acc.summary), err |-> FALSE]

\* the result after one more namespace: a failed one is skipped (memory.go 98-117)
addNamespace(acc, r) ==
    IF r.err THEN acc
    ELSE [allPods |-> acc.allPods \o r.pods,
          summary |->
              [acc.summary EXCEPT
                  !.TotalPods = @ + Len(r.pods),
                  !.TotalMemoryUsage = @ + Val(r.summary).TotalMemoryUsage,
                  !.TotalMemoryLimit = @ + Val(r.summary).TotalMemoryLimit,
                  !.TotalMemoryRequest = @ + Val(r.summary).TotalMemoryRequest,
                  !.RunningPods = @ + Val(r.summary).RunningPods,
                  !.PodsWithMetrics = @ + Val(r.summary).PodsWithMetrics,
                  !.PodsWithLimits = @ + Val(r.summary).PodsWithLimits,
                  !.PodsWithRequests = @ + Val(r.summary).PodsWithRequests]]

\* the loop over namespaces.Items (memory.go 97-118)
RECURSIVE foldNamespaces(_, _, _)
foldNamespaces(namespaces, now, n) ==
    IF n = 0
    THEN [allPods |-> <<>>,
          summary |-> [EmptySummary EXCEPT !.Timestamp = now,
                                           !.NamespaceCount = Len(namespaces)]]
    ELSE addNamespace(foldNamespaces(namespaces, now, n - 1),
                      getNamespacePodsMemoryInfo(namespaces[n]))

\* what the calls of getNamespacePodsMemoryInfo in the loop return
namespaceResults(cl) ==
    IF cl.ListErr THEN <<>>
    ELSE [i \in 1..Len(cl.Namespaces) |-> getNamespacePodsMemoryInfo(cl.Namespaces[i])]

\* a variant that gives up when a namespace cannot be listed
getAllNamespacesOrFail(cl, now) ==
    IF cl.ListErr \/ \E i \in 1..Len(cl.Namespaces) : cl.Namespaces[i].PodsErr
    THEN [pods |-> <<>>, summary |-> Nil, err |-> TRUE]
    ELSE LET acc == foldNamespaces(cl.Namespaces, now, Len(cl.Namespaces))
         IN [pods |-> acc.allPods, summary |-> Some(acc.summary), err |-> FALSE]

getAllNamespacesPodsMemoryInfo(cl, now) ==
    IF cl.ListErr THEN [pods |-> <<>>, summary |-> Nil, err |-> TRUE]
    ELSE LET acc == foldNamespaces(cl.Namespaces, now, Len(cl.Namespaces))
         IN [pods |-> acc.allPods, summary |-> Some(acc.summary), err |-> FALSE]

GetAllPodsMemoryInfo(cl, now) == getAllNamespacesPodsMemoryInfo(cl, now)

----------------------------------------------------------------------------
(* internal/monitor/types.go: limitState *)

limitStateAll == "All"
limitStatePartial == "Partial"
limitStateNone == "None"

\* a variant that tests anyPresent first
summarizeAnyFirst(all, anyPresent) ==
    IF anyPresent THEN limitStatePartial
    ELSE IF all THEN limitStateAll
    ELSE limitStateNone

summarize(all, anyPresent) ==
    IF all THEN limitStateAll
    ELSE IF anyPresent THEN limitStatePartial
    ELSE limitStateNone

\* a variant that looks at the first container only
limitStateFirstContainer(p) ==
    IF Len(p.Containers) = 0
    THEN [limits |-> summarize(Has(p.MemoryLimit), Has(p.MemoryLimit)),
          requests |-> summarize(Has(p.MemoryRequest), Has(p.MemoryRequest))]
    ELSE [limits |-> summarize(Has(p.Containers[1].MemoryLimit),
                               Has(p.Containers[1].MemoryLimit)),
          requests |-> summarize(Has(p.Containers[1].MemoryRequest),
                                 Has(p.Containers[1].MemoryRequest))]

limitState(p) ==
    IF Len(p.Containers) = 0
    THEN [limits |-> summarize(Has(p.MemoryLimit), Has(p.MemoryLimit)),
          requests |-> summarize(Has(p.MemoryRequest), Has(p.MemoryRequest))]
    ELSE LET cs == p.Containers
             idx == 1..Len(cs)
         IN [limits |-> summarize(\A i \in idx : Has(cs[i].MemoryLimit),
                                  \E i \in idx : Has(cs[i].MemoryLimit)),
             requests |-> summarize(\A i \in idx : Has(cs[i].MemoryRequest),
                                    \E i \in idx : Has(cs[i].MemoryRequest))]

----------------------------------------------------------------------------
(* internal/k8s/types.go: percentages *)

\* percent >= t, for a percentage [num, den] with den > 0
PctGE(pct, t) == pct.num >= t * pct.den

\* a variant that divides by a request or limit of zero
CalculateUsagePercentUnguarded(p) ==
    IF ~Has(p.CurrentUsage) THEN p
    ELSE LET currentValue == Val(p.CurrentUsage)
             withRequest ==
                 IF Has(p.MemoryRequest)
                 THEN [p EXCEPT !.UsagePercent =
                          Some([num |-> currentValue * 100, den |-> Val(p.MemoryRequest)])]
                 ELSE p
         IN IF Has(p.MemoryLimit)
            THEN [withRequest EXCEPT !.LimitUsagePercent =
                     Some([num |-> currentValue * 100, den |-> Val(p.MemoryLimit)])]
            ELSE withRequest

CalculateUsagePercent(p) ==
    IF ~Has(p.CurrentUsage) THEN p
    ELSE LET currentValue == Val(p.CurrentUsage)
             withRequest ==
                 IF Has(p.MemoryRequest) /\ Val(p.MemoryRequest) > 0
                 THEN [p EXCEPT !.UsagePercent =
                          Some([num |-> currentValue * 100, den |-> Val(p.MemoryRequest)])]
                 ELSE p
         IN IF Has(p.MemoryLimit) /\ Val(p.MemoryLimit) > 0
            THEN [withRequest EXCEPT !.LimitUsagePercent =
                     Some([num |-> currentValue * 100, den |-> Val(p.MemoryLimit)])]
            ELSE withRequest

----------------------------------------------------------------------------
(* internal/monitor/types.go: status classifier *)

CriticalRequestPercent == 95
CriticalLimitPercent == 90

missingConfigStatus(p) ==
    IF ~Has(p.MemoryRequest) /\ ~Has(p.MemoryLimit)
    THEN [status |-> "no_config", missing |-> TRUE]
    ELSE IF ~Has(p.MemoryRequest) THEN [status |-> "no_request", missing |-> TRUE]
    ELSE IF ~Has(p.MemoryLimit) THEN [status |-> "no_limit", missing |-> TRUE]
    ELSE [status |-> "", missing |-> FALSE]

\* a variant with exclusive thresholds
isCriticalExclusive(p) ==
    \/ /\ Has(p.UsagePercent)
       /\ Val(p.UsagePercent).num > CriticalRequestPercent * Val(p.UsagePercent).den
    \/ /\ Has(p.LimitUsagePercent)
       /\ Val(p.LimitUsagePercent).num > CriticalLimitPercent * Val(p.LimitUsagePercent).den

isCritical(p) ==
    IF Has(p.UsagePercent) /\ PctGE(Val(p.UsagePercent), CriticalRequestPercent)
    THEN TRUE
    ELSE Has(p.LimitUsagePercent) /\ PctGE(Val(p.LimitUsagePercent), CriticalLimitPercent)

isWarning(p, c) ==
    Has(p.UsagePercent) /\ PctGE(Val(p.UsagePercent), c.MemoryWarningPercent)

\* a variant that looks at the readiness and the phase before the usage
podStatusSymbolPhaseFirst(p) ==
    IF p.Ready /\ p.Phase = "Running" THEN "green"
    ELSE IF ~Has(p.CurrentUsage) THEN "white"
    ELSE IF p.Phase = "Pending" THEN "yellow"
    ELSE "red"

\* types.go 246-257: the circle shown before the pod's name, by its colour
podStatusSymbol(p) ==
    IF ~Has(p.CurrentUsage) THEN "white"
    ELSE IF p.Ready /\ p.Phase = "Running" THEN "green"
    ELSE IF p.Phase = "Pending" THEN "yellow"
    ELSE "red"

\* a variant that tests readiness before the thresholds
getMemoryStatusReadinessFirst(p, c) ==
    IF ~Has(p.CurrentUsage) THEN "no_data"
    ELSE IF missingConfigStatus(p).missing THEN missingConfigStatus(p).status
    ELSE IF ~p.Ready \/ p.Phase # "Running" THEN "not_ready"
    ELSE IF isCritical(p) THEN "critical"
    ELSE IF isWarning(p, c) THEN "warning"
    ELSE "ok"

getMemoryStatus(p, c) ==
    IF ~Has(p.CurrentUsage) THEN "no_data"
    ELSE IF missingConfigStatus(p).missing THEN missingConfigStatus(p).status
    ELSE IF isCritical(p) THEN "critical"
    ELSE IF isWarning(p, c) THEN "warning"
    ELSE IF ~p.Ready \/ p.Phase # "Running" THEN "not_ready"
    ELSE "ok"

----------------------------------------------------------------------------
(* internal/monitor/types.go and analysis_reporter.go: the displayed sections *)

\* a variant that compares whole samples
containsEqual(pods, target) == \E i \in 1..Len(pods) : pods[i] = target

contains(pods, target) ==
    \E i \in 1..Len(pods) :
        pods[i].Namespace = target.Namespace /\ pods[i].PodName = target.PodName

\* a variant that drops only the pods without any limit
filterSomeLimited(pods) ==
    LET keep(q) == limitState(q).limits # limitStateNone
    IN SelectSeq(pods, keep)

filterAllLimited(pods) ==
    LET keep(q) == limitState(q).limits = limitStateAll
    IN SelectSeq(pods, keep)

\* formatPodBaseInfo computes the percentages of the pod it is about to print
formatPodInfo(p) == CalculateUsagePercent(p)

FormatAll(pods) == [i \in 1..Len(pods) |-> formatPodInfo(pods[i])]

\* the pods listed under "High Memory Usage Pods"
printHighUsagePods(a) == FormatAll(filterAllLimited(a.HighUsagePods))

\* the pods listed under "Warning Level Pods"
printWarningPods(a) ==
    LET filteredHigh == filterAllLimited(a.HighUsagePods)
        filteredWarn == filterAllLimited(a.WarningPods)
        fresh(q) == ~contains(filteredHigh, q)
    IN FormatAll(SelectSeq(filteredWarn, fresh))

----------------------------------------------------------------------------
(* internal/monitor/types.go and csv_formatter.go: the CSV renderer *)

\* Strings the code edits (label and annotation keys, annotation values) are
\* sequences of one-character strings; maps are sets of <<key, value>> pairs.
MapHas(m, k) == \E e \in m : e[1] = k
MapGet(m, k) == (CHOOSE e \in m : e[1] = k)[2]

ReplaceAll(str, old, new) == [i \in 1..Len(str) |-> IF str[i] = old THEN new ELSE str[i]]

FormatBool(b) == IF b THEN "true" ELSE "false"

\* the decimal digits of the byte count, "" for nil
formatBytesForCSV(q) == IF Has(q) THEN <<Val(q)>> ELSE <<>>

\* two decimals: the percentage in hundredths, rounded; "" for nil
formatPercentForCSV(percent) ==
    IF Has(percent)
    THEN <<(2 * 100 * Val(percent).num + Val(percent).den) \div (2 * Val(percent).den)>>
    ELSE <<>>

\* a variant that leaves out the labels the pod does not have
labelValuesPresentOnly(p, c) ==
    LET present == SelectSeq(c.Labels, LAMBDA k : MapHas(p.Labels, k))
    IN [i \in 1..Len(present) |-> MapGet(p.Labels, present[i])]

labelValues(p, c) ==
    [i \in 1..Len(c.Labels) |->
        IF MapHas(p.Labels, c.Labels[i]) THEN MapGet(p.Labels, c.Labels[i]) ELSE <<>>]

annotationValues(p, c) ==
    [i \in 1..Len(c.Annotations) |->
        IF MapHas(p.Annotations, c.Annotations[i])
        THEN ReplaceAll(ReplaceAll(MapGet(p.Annotations, c.Annotations[i]), "\n", " "),
                        "\r", " ")
        ELSE <<>>]

buildCSVRecord(p, container, c, timestamp) ==
    << timestamp,
       getMemoryStatus(p, c),
       p.Namespace,
       p.PodName,
       p.Phase,
       FormatBool(p.Ready),
       formatBytesForCSV(container.CurrentUsage),
       formatBytesForCSV(container.MemoryRequest),
       formatBytesForCSV(container.MemoryLimit),
       formatPercentForCSV(container.UsagePercent),
       formatPercentForCSV(container.LimitUsagePercent),
       container.ContainerName >>
    \o labelValues(p, c) \o annotationValues(p, c)

buildCSVRecordForPod(p, c, timestamp) ==
    << timestamp,
       getMemoryStatus(p, c),
       p.Namespace,
       p.PodName,
       p.Phase,
       FormatBool(p.Ready),
       formatBytesForCSV(p.CurrentUsage),
       formatBytesForCSV(p.MemoryRequest),
       formatBytesForCSV(p.MemoryLimit),
       formatPercentForCSV(p.UsagePercent),
       formatPercentForCSV(p.LimitUsagePercent),
       "" >>
    \o labelValues(p, c) \o annotationValues(p, c)

buildHeader(c) ==
    << "timestamp", "memory_status", "namespace", "pod_name", "phase", "ready",
       "usage_bytes", "request_bytes", "limit_bytes", "usage_percent",
       "limit_usage_percent", "container_name" >>
    \o [i \in 1..Len(c.Labels) |->
           <<"l", "a", "b", "e", "l", "_">> \o ReplaceAll(c.Labels[i], ".", "_")]
    \o [i \in 1..Len(c.Annotations) |->
           <<"a", "n", "n", "o", "t", "a", "t", "i", "o", "n", "_">>
           \o ReplaceAll(c.Annotations[i], ".", "_")]

\* ContainerMemoryInfo.CalculateUsagePercent: the rule of the pod sample,
\* applied to the container's own usage, request and limit
ContainerCalculateUsagePercent(container) == CalculateUsagePercent(container)

\* a variant that writes the first container only
writeFirstContainerRow(p, c, timestamp) ==
    <<buildCSVRecord(p, ContainerCalculateUsagePercent(p.Containers[1]), c, timestamp)>>

writeContainerRows(p, c, timestamp) ==
    [i \in 1..Len(p.Containers) |->
        buildCSVRecord(p, ContainerCalculateUsagePercent(p.Containers[i]), c, timestamp)]

writePodRow(p, c, timestamp) == <<buildCSVRecordForPod(p, c, timestamp)>>

\* writeData computes each pod's percentages in place before its rows
calculatedPods(pods) == [i \in 1..Len(pods) |-> CalculateUsagePercent(pods[i])]

RECURSIVE writeData(_, _, _)
writeData(pods, c, timestamp) ==
    IF Len(pods) = 0 THEN <<>>
    ELSE LET p == CalculateUsagePercent(Head(pods))
         IN (IF Len(p.Containers) > 0
             THEN writeContainerRows(p, c, timestamp)
             ELSE writePodRow(p, c, timestamp))
            \o writeData(Tail(pods), c, timestamp)

\* a variant that stops at the first Write that fails
FormatReportAbortOnError(r, c, header, brokenFrom) ==
    LET records ==
            (IF header THEN <<[kind |-> "header", fields |-> buildHeader(c)]>> ELSE <<>>)
            \o [i \in 1..Len(writeData(r.Pods, c, r.Summary.Timestamp)) |->
                   [kind |-> "row",
                    fields |-> writeData(r.Pods, c, r.Summary.Timestamp)[i]]]
        attempted == IF brokenFrom > 0 /\ brokenFrom < Len(records)
                     THEN brokenFrom ELSE Len(records)
    IN [i \in 1..attempted |->
           [kind |-> records[i].kind, fields |-> records[i].fields,
            err |-> (brokenFrom > 0 /\ i >= brokenFrom)]]

\* the records FormatReport hands to csv.Writer.Write, in order, each with the
\* result of the call: once the writer has failed, every later Write fails
FormatReport(r, c, header, brokenFrom) ==
    LET records ==
            (IF header THEN <<[kind |-> "header", fields |-> buildHeader(c)]>> ELSE <<>>)
            \o [i \in 1..Len(writeData(r.Pods, c, r.Summary.Timestamp)) |->
                   [kind |-> "row",
                    fields |-> writeData(r.Pods, c, r.Summary.Timestamp)[i]]]
    IN [i \in 1..Len(records) |->
           [kind |-> records[i].kind, fields |-> records[i].fields,
            err |-> (brokenFrom > 0 /\ i >= brokenFrom)]]

\* the status of one container, from its own usage, request, limit and
\* percentages; readiness and phase are those of its pod
getContainerMemoryStatus(p, container, c) ==
    getMemoryStatus([CurrentUsage |-> container.CurrentUsage,
                     MemoryRequest |-> container.MemoryRequest,
                     MemoryLimit |-> container.MemoryLimit,
                     UsagePercent |-> container.UsagePercent,
                     LimitUsagePercent |-> container.LimitUsagePercent,
                     Ready |-> p.Ready, Phase |-> p.Phase], c)

----------------------------------------------------------------------------
(* The parts of the state a specification does not use stay as constructed *)

\* each Write is labelled with the PrintCSV call that made it
Stamp(entries, n) ==
    [i \in 1..Len(entries) |->
        [kind |-> entries[i].kind, fields |-> entries[i].fields,
         err |-> entries[i].err, call |-> n]]

PodIdle ==
    /\ pod = Nil
    /\ metrics = Nil
    /\ podInfo = Nil
    /\ limStates = Nil
    /\ calculated = FALSE
    /\ status = Nil
    /\ symbol = Nil

AnalysisIdle ==
    /\ analysis = Nil
    /\ shownHigh = <<>>
    /\ shownWarn = <<>>
    /\ printed = FALSE

CsvIdle ==
    /\ report = Nil
    /\ showHeader = FALSE
    /\ failFrom = 0
    /\ writes = <<>>
    /\ rendered = FALSE

CollectIdle ==
    /\ cluster = Nil
    /\ collected = Nil
    /\ nsCollected = <<>>

ConfigIdle ==
    /\ env = <<>>
    /\ cli = Nil
    /\ loaded = Nil

AnnotationIdle ==
    /\ annotationInput = <<>>
    /\ annotationLines = Nil

MainIdle ==
    /\ ConfigIdle
    /\ AnnotationIdle
    /\ pc = "idle"
    /\ csvHeaderPrinted = FALSE
    /\ cycles = 0
    /\ renders = 0
    /\ cancelled = FALSE
    /\ sigChan = 0

----------------------------------------------------------------------------
(* Aggregation of one pod: inputs *)

RawContainers(n) ==
    [Name : {ContainerNames[n]}, Requests : Opt(RequestValues), Limits : Opt(LimitValues)]

RECURSIVE ContainerLists(_)
ContainerLists(n) ==
    IF n = 0 THEN {<<>>}
    ELSE {Append(cs, c) : cs \in ContainerLists(n - 1), c \in RawContainers(n)}

\* metrics entries have distinct names, in the order of the names given
RECURSIVE MetricsLists(_)
MetricsLists(names) ==
    IF Len(names) = 0 THEN {<<>>}
    ELSE LET rest == MetricsLists(Tail(names))
         IN rest \cup {<<[Name |-> Head(names), Usage |-> u]>> \o r :
                          u \in Opt(UsageValues), r \in rest}

PodMetas ==
    { [Phase |-> "Running", Conditions |-> <<[Type |-> "Ready", Status |-> "True"]>>,
       Labels |-> {<<"app", "web">>}, Annotations |-> {}],
      [Phase |-> "Running",
       Conditions |-> <<[Type |-> "Initialized", Status |-> "True"],
                        [Type |-> "Ready", Status |-> "False"]>>,
       Labels |-> {}, Annotations |-> {<<"owner", "ops">>}],
      [Phase |-> "Pending", Conditions |-> <<>>, Labels |-> {}, Annotations |-> {}] }

RawPod(meta, cs) ==
    [Namespace |-> "ns", Name |-> "p", Phase |-> meta.Phase,
     Conditions |-> meta.Conditions, Labels |-> meta.Labels,
     Annotations |-> meta.Annotations, Containers |-> cs]

RawPods ==
    {RawPod(meta, cs) :
        meta \in PodMetas,
        cs \in UNION {ContainerLists(n) : n \in 0..MaxContainers}}

MetricsFor(p) ==
    {Nil} \cup
    {Some([Name |-> p.Name, Containers |-> ms]) :
        ms \in MetricsLists([i \in 1..Len(p.Containers) |-> p.Containers[i].Name]
                            \o <<ForeignName>>)}

----------------------------------------------------------------------------
(* Specification SpecPod: processPodMemoryInfo on one raw pod, then          *)
(* limitState on the sample it built.                                        *)

InitPod ==
    /\ pod \in RawPods
    /\ metrics \in MetricsFor(pod)
    /\ podInfo = Nil
    /\ limStates = Nil
    /\ cfg = DefaultConfig
    /\ calculated = FALSE
    /\ status = Nil
    /\ symbol = Nil
    /\ AnalysisIdle
    /\ CsvIdle
    /\ CollectIdle
    /\ MainIdle

ProcessPod ==
    /\ podInfo = Nil
    /\ podInfo' = Some(processPodMemoryInfo(pod, metrics))
    /\ UNCHANGED <<pod, metrics, limStates, cfg, calculated, status, analysisVars, csvVars, collectVars, mainVars, configVars, annotationVars, symbol>>

LimitState ==
    /\ Has(podInfo)
    /\ limStates = Nil
    /\ limStates' = Some(limitState(Val(podInfo)))
    /\ UNCHANGED <<pod, metrics, podInfo, cfg, calculated, status, analysisVars, csvVars, collectVars, mainVars, configVars, annotationVars, symbol>>

\* CalculateUsagePercent on the sample as processPodMemoryInfo built it
CalculateSample ==
    /\ Has(podInfo)
    /\ ~calculated
    /\ podInfo' = Some(CalculateUsagePercent(Val(podInfo)))
    /\ calculated' = TRUE
    /\ UNCHANGED <<pod, metrics, limStates, cfg, status, analysisVars, csvVars, collectVars, mainVars, configVars, annotationVars, symbol>>

NextPod == ProcessPod \/ LimitState \/ CalculateSample

SpecPod == InitPod /\ [][NextPod]_vars

----------------------------------------------------------------------------
(* Properties of the aggregation (SpecPod) *)

RECURSIVE SumVals(_)
SumVals(os) ==
    IF Len(os) = 0 THEN 0
    ELSE (IF Has(Head(os)) THEN Val(Head(os)) ELSE 0) + SumVals(Tail(os))

DeclaredRequests == [i \in 1..Len(pod.Containers) |-> pod.Containers[i].Requests]
DeclaredLimits == [i \in 1..Len(pod.Containers) |-> pod.Containers[i].Limits]
SampleUsages ==
    [i \in 1..Len(Val(podInfo).Containers) |-> Val(podInfo).Containers[i].CurrentUsage]

\* C1: the pod-level MemoryRequest is present iff every container declares a
\* memory request and then equals the sum of the container requests; the same
\* for MemoryLimit and the container limits.
C1_AllOrNothingTotals ==
    Has(podInfo) =>
        /\ Has(Val(podInfo).MemoryRequest)
              <=> (\A i \in DOMAIN DeclaredRequests : Has(DeclaredRequests[i]))
        /\ Has(Val(podInfo).MemoryRequest)
              => Val(Val(podInfo).MemoryRequest) = SumVals(DeclaredRequests)
        /\ Has(Val(podInfo).MemoryLimit)
              <=> (\A i \in DOMAIN DeclaredLimits : Has(DeclaredLimits[i]))
        /\ Has(Val(podInfo).MemoryLimit)
              => Val(Val(podInfo).MemoryLimit) = SumVals(DeclaredLimits)

\* a pod of two containers, one without a request, both with a limit: the
\* request total is void and the limit total is the sum of the two limits
C1_Witness ==
    /\ Has(podInfo)
    /\ Len(pod.Containers) = 2
    /\ Has(pod.Containers[1].Requests)
    /\ ~Has(pod.Containers[2].Requests)
    /\ ~Has(Val(podInfo).MemoryRequest)
    /\ Has(Val(podInfo).MemoryLimit)
    /\ Val(Val(podInfo).MemoryLimit) = 8

\* C5: for a pod with at least one container limitState yields, for limits,
\* All iff every container has a limit, None iff no container has one, and
\* Partial otherwise; requests are classified by the same rule, independently.
C5_Classify(st, present) ==
    /\ st \in {limitStateAll, limitStatePartial, limitStateNone}
    /\ st = limitStateAll <=> (\A i \in DOMAIN present : present[i])
    /\ st = limitStateNone <=> (\A i \in DOMAIN present : ~present[i])
    /\ st = limitStatePartial <=>
          /\ \E i \in DOMAIN present : present[i]
          /\ \E i \in DOMAIN present : ~present[i]

C5_LimitStateTernary ==
    (Has(limStates) /\ Len(Val(podInfo).Containers) >= 1) =>
        LET cs == Val(podInfo).Containers
        IN /\ C5_Classify(Val(limStates).limits,
                          [i \in 1..Len(cs) |-> Has(cs[i].MemoryLimit)])
           /\ C5_Classify(Val(limStates).requests,
                          [i \in 1..Len(cs) |-> Has(cs[i].MemoryRequest)])

\* limits on one container only, requests on both: Partial and All at once
C5_Witness ==
    /\ Has(limStates)
    /\ Len(Val(podInfo).Containers) = 2
    /\ Val(limStates).limits = limitStatePartial
    /\ Val(limStates).requests = limitStateAll

\* C26: on every sample processPodMemoryInfo builds, the pod-level
\* MemoryLimit is present if and only if limitState classifies the limits as
\* All, and the pod-level MemoryRequest if and only if the requests are All;
\* for a pod without containers limitState never yields Partial
C26_TotalsAgreeWithLimitState ==
    Has(limStates) =>
        /\ Has(Val(podInfo).MemoryLimit) <=> Val(limStates).limits = limitStateAll
        /\ Has(Val(podInfo).MemoryRequest) <=> Val(limStates).requests = limitStateAll
        /\ Len(Val(podInfo).Containers) = 0 =>
              /\ Val(limStates).limits # limitStatePartial
              /\ Val(limStates).requests # limitStatePartial

\* two containers, the second without a limit: no pod-level limit, Partial
C26_Witness ==
    /\ Has(limStates)
    /\ Len(Val(podInfo).Containers) = 2
    /\ Has(Val(podInfo).Containers[1].MemoryLimit)
    /\ ~Has(Val(podInfo).Containers[2].MemoryLimit)
    /\ ~Has(Val(podInfo).MemoryLimit)
    /\ Val(limStates).limits = limitStatePartial
    /\ Has(Val(podInfo).MemoryRequest)
    /\ Val(limStates).requests = limitStateAll

\* C10: the pod-level CurrentUsage is the sum of the usages of the container
\* samples that have one, and it is absent only when no container sample has
\* a usage (a measured zero is present with value 0).
C10_UsageSumOrAbsent ==
    Has(podInfo) =>
        /\ Has(Val(podInfo).CurrentUsage)
              <=> (\E i \in DOMAIN SampleUsages : Has(SampleUsages[i]))
        /\ Has(Val(podInfo).CurrentUsage)
              => Val(Val(podInfo).CurrentUsage) = SumVals(SampleUsages)

\* C11: after CalculateUsagePercent on a freshly built sample, UsagePercent
\* is present if and only if usage and request are both present and the
\* request is > 0, and then equals 100 * usage / request; LimitUsagePercent
\* obeys the same rule with the limit; without usage both are absent.
C11_PercentWhenDefined ==
    (Has(podInfo) /\ calculated) =>
        LET p == Val(podInfo)
        IN /\ Has(p.UsagePercent) <=>
                 (Has(p.CurrentUsage) /\ Has(p.MemoryRequest) /\ Val(p.MemoryRequest) > 0)
           /\ Has(p.UsagePercent) =>
                 Val(p.UsagePercent).num * Val(p.MemoryRequest)
                    = 100 * Val(p.CurrentUsage) * Val(p.UsagePercent).den
           /\ Has(p.LimitUsagePercent) <=>
                 (Has(p.CurrentUsage) /\ Has(p.MemoryLimit) /\ Val(p.MemoryLimit) > 0)
           /\ Has(p.LimitUsagePercent) =>
                 Val(p.LimitUsagePercent).num * Val(p.MemoryLimit)
                    = 100 * Val(p.CurrentUsage) * Val(p.LimitUsagePercent).den
           /\ ~Has(p.CurrentUsage) => (~Has(p.UsagePercent) /\ ~Has(p.LimitUsagePercent))

\* usage 3 of a request of 2 and a limit of 4: 150% and 75%
C11_Witness ==
    /\ Has(podInfo)
    /\ calculated
    /\ Val(podInfo).CurrentUsage = Some(3)
    /\ Val(podInfo).MemoryRequest = Some(2)
    /\ Val(podInfo).MemoryLimit = Some(4)
    /\ Has(Val(podInfo).UsagePercent)
    /\ 2 * Val(Val(podInfo).UsagePercent).num = 300 * Val(Val(podInfo).UsagePercent).den
    /\ 4 * Val(Val(podInfo).LimitUsagePercent).num = 300 * Val(Val(podInfo).LimitUsagePercent).den

----------------------------------------------------------------------------
(* Specification SpecStatus: CalculateUsagePercent and getMemoryStatus on a  *)
(* PodMemoryInfo whose fields are set freely, as the unit tests build them.  *)

StatusUsageValues == {0, 17, 18, 19, 36}
StatusRequestValues == {0, 20}
StatusLimitValues == {0, 20, 40}
StatusPercents == {[num |-> n, den |-> 1] : n \in {50, 80, 95}}
StatusLimitPercents == {[num |-> n, den |-> 1] : n \in {50, 90}}
WarningPercents == {50, 80, 100}
Phases == {"Running", "Pending", "Failed"}

StatusEntities ==
    [Namespace : {"ns"}, PodName : {"p"}, Phase : Phases, Ready : BOOLEAN,
     Labels : {{}}, Annotations : {{}}, Containers : {<<>>},
     CurrentUsage : Opt(StatusUsageValues),
     MemoryRequest : Opt(StatusRequestValues),
     MemoryLimit : Opt(StatusLimitValues),
     UsagePercent : Opt(StatusPercents),
     LimitUsagePercent : Opt(StatusLimitPercents)]

InitStatus ==
    /\ pod = Nil
    /\ metrics = Nil
    /\ podInfo \in {Some(e) : e \in StatusEntities}
    /\ limStates = Nil
    /\ cfg \in {Config(w, <<>>, <<>>, "table") : w \in WarningPercents}
    /\ calculated = FALSE
    /\ status = Nil
    /\ symbol = Nil
    /\ AnalysisIdle
    /\ CsvIdle
    /\ CollectIdle
    /\ MainIdle

CalculatePercent ==
    /\ ~calculated
    /\ podInfo' = Some(CalculateUsagePercent(Val(podInfo)))
    /\ calculated' = TRUE
    /\ status' = Nil
    /\ UNCHANGED <<pod, metrics, limStates, cfg, analysisVars, csvVars, collectVars, mainVars, configVars, annotationVars, symbol>>

GetStatus ==
    /\ status = Nil
    /\ status' = Some(getMemoryStatus(Val(podInfo), cfg))
    /\ UNCHANGED <<pod, metrics, podInfo, limStates, cfg, calculated, analysisVars, csvVars, collectVars, mainVars, configVars, annotationVars, symbol>>

\* types.go 268: formatPodBaseInfo asks for the pod's indicator
StatusSymbol ==
    /\ symbol = Nil
    /\ symbol' = Some(podStatusSymbol(Val(podInfo)))
    /\ UNCHANGED <<pod, metrics, podInfo, limStates, cfg, calculated, status,
                   analysisVars, csvVars, collectVars, mainVars, configVars, annotationVars>>

NextStatus == CalculatePercent \/ GetStatus \/ StatusSymbol

SpecStatus == InitStatus /\ [][NextStatus]_vars

----------------------------------------------------------------------------
(* Properties of the status classifier (SpecStatus) *)

\* the eight statuses in the order of precedence, each with its condition
StatusRules(p, warn) ==
    << [name |-> "no_data", when |-> ~Has(p.CurrentUsage)],
       [name |-> "no_config", when |-> ~Has(p.MemoryRequest) /\ ~Has(p.MemoryLimit)],
       [name |-> "no_request", when |-> ~Has(p.MemoryRequest)],
       [name |-> "no_limit", when |-> ~Has(p.MemoryLimit)],
       [name |-> "critical",
        when |-> \/ Has(p.UsagePercent) /\ Val(p.UsagePercent).num >= 95 * Val(p.UsagePercent).den
                 \/ Has(p.LimitUsagePercent)
                    /\ Val(p.LimitUsagePercent).num >= 90 * Val(p.LimitUsagePercent).den],
       [name |-> "warning",
        when |-> Has(p.UsagePercent) /\ Val(p.UsagePercent).num >= warn * Val(p.UsagePercent).den],
       [name |-> "not_ready", when |-> ~p.Ready \/ p.Phase # "Running"],
       [name |-> "ok", when |-> TRUE] >>

FirstMatch(rules) ==
    rules[CHOOSE i \in 1..Len(rules) :
              rules[i].when /\ \A j \in 1..(i - 1) : ~rules[j].when].name

\* C2: getMemoryStatus returns exactly the first status that matches in the
\* order no_data, no_config, no_request, no_limit, critical, warning,
\* not_ready, ok; without usage it is no_data, a missing request or limit wins
\* over critical, and warning wins over not_ready.
C2_StatusPrecedence ==
    Has(status) =>
        LET p == Val(podInfo)
            st == Val(status)
        IN /\ st = FirstMatch(StatusRules(p, cfg.MemoryWarningPercent))
           /\ ~Has(p.CurrentUsage) => st = "no_data"
           /\ (Has(p.CurrentUsage) /\ (~Has(p.MemoryRequest) \/ ~Has(p.MemoryLimit)))
                 => st \in {"no_config", "no_request", "no_limit"}
           /\ (Has(p.UsagePercent) /\ st = "not_ready")
                 => Val(p.UsagePercent).num < cfg.MemoryWarningPercent * Val(p.UsagePercent).den

\* a pod that is not ready, at 95% by its percentage field and without a
\* limit: no_limit wins over critical and over not_ready
C2_Witness ==
    /\ Has(status)
    /\ Val(status) = "no_limit"
    /\ ~Val(podInfo).Ready
    /\ Has(Val(podInfo).UsagePercent)
    /\ Val(Val(podInfo).UsagePercent).num = 95

FreshPercents(p) ==
    /\ (Has(p.UsagePercent) => Has(p.MemoryRequest) /\ Val(p.MemoryRequest) > 0)
    /\ (Has(p.LimitUsagePercent) => Has(p.MemoryLimit) /\ Val(p.MemoryLimit) > 0)

AllPresent(p) == Has(p.CurrentUsage) /\ Has(p.MemoryRequest) /\ Has(p.MemoryLimit)

\* C3 as stated: with usage, request and limit present (any non-negative
\* byte counts) and the percentages computed, the status is critical exactly
\* when usage >= 95% of the request or usage >= 90% of the limit.
C3_CriticalAnyBytes ==
    (calculated /\ Has(status) /\ AllPresent(Val(podInfo)) /\ FreshPercents(Val(podInfo))) =>
        LET p == Val(podInfo)
        IN Val(status) = "critical" <=>
              \/ 100 * Val(p.CurrentUsage) >= 95 * Val(p.MemoryRequest)
              \/ 100 * Val(p.CurrentUsage) >= 90 * Val(p.MemoryLimit)

\* C3 as amended: a request (limit) of zero bytes gives no percentage and is
\* not compared; the status is critical exactly when the request is positive
\* and usage >= 95% of it, or the limit is positive and usage >= 90% of it.
C3_CriticalPositiveBytes ==
    (calculated /\ Has(status) /\ AllPresent(Val(podInfo)) /\ FreshPercents(Val(podInfo))) =>
        LET p == Val(podInfo)
        IN Val(status) = "critical" <=>
              \/ /\ Val(p.MemoryRequest) > 0
                 /\ 100 * Val(p.CurrentUsage) >= 95 * Val(p.MemoryRequest)
              \/ /\ Val(p.MemoryLimit) > 0
                 /\ 100 * Val(p.CurrentUsage) >= 90 * Val(p.MemoryLimit)

\* usage 18 of request 20 and limit 20: exactly 90% of the limit, critical
C3_Witness ==
    /\ calculated
    /\ Has(status)
    /\ Val(status) = "critical"
    /\ Val(podInfo).CurrentUsage = Some(18)
    /\ Val(podInfo).MemoryRequest = Some(20)
    /\ Val(podInfo).MemoryLimit = Some(20)

----------------------------------------------------------------------------
(* Specification SpecAnalysis: PrintAnalysis on an AnalysisResult whose      *)
(* HighUsagePods, WarningPods and ProblemsFound are set freely.              *)

MaxListed == 2

ContainerSample(name, usage, request, limit) ==
    [ContainerName |-> name, CurrentUsage |-> usage, MemoryRequest |-> request,
     MemoryLimit |-> limit, UsagePercent |-> Nil, LimitUsagePercent |-> Nil]

PodSample(ns, name, phase, ready, usage, request, limit, containers) ==
    [Namespace |-> ns, PodName |-> name, Phase |-> phase, Ready |-> ready,
     Labels |-> {}, Annotations |-> {}, Containers |-> containers,
     CurrentUsage |-> usage, MemoryRequest |-> request, MemoryLimit |-> limit,
     UsagePercent |-> Nil, LimitUsagePercent |-> Nil]

AnalysisPods ==
    { \* every container has a limit
      PodSample("ns", "all", "Running", TRUE, Some(19), Some(20), Some(20),
                <<ContainerSample("c", Nil, Some(1), Some(1))>>),
      \* the same pod (namespace and name) sampled with another usage
      PodSample("ns", "all", "Running", TRUE, Some(20), Some(20), Some(20),
                <<ContainerSample("c", Nil, Some(1), Some(1))>>),
      \* one container of two has a limit
      PodSample("ns", "partial", "Running", TRUE, Some(18), Nil, Nil,
                <<ContainerSample("a", Nil, Nil, Some(1)),
                  ContainerSample("b", Nil, Nil, Nil)>>),
      \* no container has a limit
      PodSample("ns", "none", "Running", TRUE, Some(18), Some(20), Nil,
                <<ContainerSample("a", Nil, Some(20), Nil)>>),
      \* no container breakdown, pod-level limit present
      PodSample("ns", "bare", "Running", TRUE, Some(18), Some(20), Some(20), <<>>),
      \* no container breakdown, no pod-level limit
      PodSample("ns", "void", "Pending", FALSE, Some(18), Nil, Nil, <<>>) }

Findings == {<<>>, <<"Pod ns/partial has no memory limit defined">>}

InitAnalysis ==
    /\ PodIdle
    /\ cfg = DefaultConfig
    /\ analysis \in {Some([HighUsagePods |-> h, WarningPods |-> w, ProblemsFound |-> f]) :
                        h \in SeqsUpTo(AnalysisPods, MaxListed),
                        w \in SeqsUpTo(AnalysisPods, MaxListed),
                        f \in Findings}
    /\ shownHigh = <<>>
    /\ shownWarn = <<>>
    /\ printed = FALSE
    /\ CsvIdle
    /\ CollectIdle
    /\ MainIdle

PrintAnalysis ==
    /\ Has(analysis)
    /\ ~printed
    /\ shownHigh' = printHighUsagePods(Val(analysis))
    /\ shownWarn' = printWarningPods(Val(analysis))
    /\ printed' = TRUE
    /\ UNCHANGED <<podVars, cfg, analysis, csvVars, collectVars, mainVars, configVars, annotationVars>>

NextAnalysis == PrintAnalysis

SpecAnalysis == InitAnalysis /\ [][NextAnalysis]_vars

----------------------------------------------------------------------------
(* Properties of the displayed sections (SpecAnalysis) *)

SamePod(p, q) == p.Namespace = q.Namespace /\ p.PodName = q.PodName
Listed(shown, p) == \E i \in 1..Len(shown) : SamePod(shown[i], p)

\* C4: the High Memory Usage and Warning Level sections never list a pod
\* whose limit-consistency for limits is Partial or None, whatever
\* HighUsagePods, WarningPods and ProblemsFound contain; a pod whose
\* limit-consistency is All is still listed: one of HighUsagePods in the high
\* section, one of WarningPods in the warning section unless the high section
\* already lists it.
C4_SectionsOnlyAllLimited ==
    printed =>
        LET a == Val(analysis)
        IN /\ \A i \in 1..Len(shownHigh) :
                  limitState(shownHigh[i]).limits = limitStateAll
           /\ \A i \in 1..Len(shownWarn) :
                  limitState(shownWarn[i]).limits = limitStateAll
           /\ \A i \in 1..Len(a.HighUsagePods) :
                  limitState(a.HighUsagePods[i]).limits = limitStateAll
                     => Listed(shownHigh, a.HighUsagePods[i])
           /\ \A i \in 1..Len(a.WarningPods) :
                  limitState(a.WarningPods[i]).limits = limitStateAll
                     => \/ Listed(shownWarn, a.WarningPods[i])
                        \/ Listed(shownHigh, a.WarningPods[i])

\* C17: no pod is printed in both sections: a pod listed in the High Memory
\* Usage section is not listed again in the Warning Level section, where the
\* same pod means the same (namespace, pod name), whatever the other fields.
C17_NoPodInBothSections ==
    printed =>
        \A i \in 1..Len(shownHigh), j \in 1..Len(shownWarn) :
            ~SamePod(shownHigh[i], shownWarn[j])

\* pod ns/all is in HighUsagePods with usage 19 and in WarningPods with usage
\* 20: it is printed in the high section only
C17_Witness ==
    /\ printed
    /\ Len(Val(analysis).HighUsagePods) = 1
    /\ Len(Val(analysis).WarningPods) = 1
    /\ SamePod(Val(analysis).HighUsagePods[1], Val(analysis).WarningPods[1])
    /\ Val(analysis).HighUsagePods[1] # Val(analysis).WarningPods[1]
    /\ Len(shownHigh) = 1
    /\ shownWarn = <<>>

\* HighUsagePods = <<all, partial>> and ProblemsFound mentions partial: only
\* all is printed
C4_Witness ==
    /\ printed
    /\ Len(Val(analysis).HighUsagePods) = 2
    /\ Val(analysis).HighUsagePods[1].PodName = "all"
    /\ Val(analysis).HighUsagePods[2].PodName = "partial"
    /\ Len(Val(analysis).ProblemsFound) = 1
    /\ Len(shownHigh) = 1
    /\ shownHigh[1].PodName = "all"

----------------------------------------------------------------------------
(* Specification SpecCSV: one call of FormatReport on a report.              *)

MaxPods == 2
MaxFailFrom == 2

CsvPods ==
    { \* pod-level values void, one configured container and one without
      PodSample("monitoring", "grafana", "Running", TRUE, Nil, Nil, Nil,
                <<ContainerSample("grafana", Some(10), Some(20), Some(40)),
                  ContainerSample("sidecar", Some(5), Nil, Nil)>>),
      \* pod totals fine, container a at 95% of its request
      PodSample("ns", "mixed", "Running", TRUE, Some(20), Some(40), Some(80),
                <<ContainerSample("a", Some(19), Some(20), Some(40)),
                  ContainerSample("b", Some(1), Some(20), Some(40))>>),
      \* a single container
      PodSample("ns", "single", "Pending", FALSE, Some(10), Some(20), Some(40),
                <<ContainerSample("c", Some(10), Some(20), Some(40))>>),
      \* no container breakdown
      PodSample("ns", "bare", "Running", TRUE, Some(18), Some(20), Some(40), <<>>),
      PodSample("ns", "void", "Pending", FALSE, Nil, Nil, Nil, <<>>),
      \* a label app=web and an annotation k.v with a line break in its value
      [PodSample("ns", "tagged", "Running", TRUE, Some(10), Some(20), Some(40),
                 <<ContainerSample("c", Some(10), Some(20), Some(40))>>)
          EXCEPT !.Labels = {<< <<"a", "p", "p">>, <<"w", "e", "b">> >>},
                 !.Annotations = {<< <<"k", ".", "v">>, <<"x", "\n", "y">> >>}] }

CsvConfigs ==
    { Config(DefaultWarningPercent, <<>>, <<>>, "csv"),
      Config(DefaultWarningPercent, <<<<"a", "p", "p">>>>, <<<<"k", ".", "v">>>>, "csv"),
      Config(DefaultWarningPercent, <<<<"t", "i", "e", "r">>, <<"a", "p", "p">>>>, <<>>, "csv") }

Report(pods, timestamp) == [Summary |-> [Timestamp |-> timestamp], Pods |-> pods]

InitCSV ==
    /\ PodIdle
    /\ AnalysisIdle
    /\ cfg \in CsvConfigs
    /\ report \in {Some(Report(pods, 1)) : pods \in SeqsUpTo(CsvPods, MaxPods)}
    /\ showHeader \in BOOLEAN
    /\ failFrom \in 0..MaxFailFrom
    /\ writes = <<>>
    /\ rendered = FALSE
    /\ CollectIdle
    /\ MainIdle

PrintCSV ==
    /\ Has(report)
    /\ ~rendered
    /\ writes' = Stamp(FormatReport(Val(report), cfg, showHeader, failFrom), 1)
    /\ report' = Some([Val(report) EXCEPT !.Pods = calculatedPods(@)])
    /\ rendered' = TRUE
    /\ UNCHANGED <<podVars, analysisVars, collectVars, mainVars, configVars, annotationVars, cfg, showHeader, failFrom>>

NextCSV == PrintCSV

SpecCSV == InitCSV /\ [][NextCSV]_vars

----------------------------------------------------------------------------
(* Properties of the CSV renderer (SpecCSV) *)

IsRow(w) == w.kind = "row"
RowWrites == SelectSeq(writes, IsRow)

Max(a, b) == IF a >= b THEN a ELSE b

RECURSIVE ExpectedRowCount(_)
ExpectedRowCount(pods) ==
    IF Len(pods) = 0 THEN 0
    ELSE Max(1, Len(Head(pods).Containers)) + ExpectedRowCount(Tail(pods))

\* for every row in order: its pod, its container (none for a fallback row)
RECURSIVE RowOwners(_)
RowOwners(pods) ==
    IF Len(pods) = 0 THEN <<>>
    ELSE (IF Len(Head(pods).Containers) = 0
          THEN <<[pod |-> Head(pods), container |-> Nil]>>
          ELSE [i \in 1..Len(Head(pods).Containers) |->
                   [pod |-> Head(pods), container |-> Some(Head(pods).Containers[i])]])
         \o RowOwners(Tail(pods))

\* C6: every row of a container carries the status computed from that
\* container's own usage, request, limit and percentages, and the single row
\* of a pod without containers carries the pod-level status.
C6_ContainerRowStatus ==
    rendered =>
        LET owners == RowOwners(Val(report).Pods)
        IN /\ Len(RowWrites) = Len(owners)
           /\ \A i \in 1..Len(owners) :
                 RowWrites[i].fields[2] =
                    IF Has(owners[i].container)
                    THEN getContainerMemoryStatus(
                             owners[i].pod,
                             ContainerCalculateUsagePercent(Val(owners[i].container)),
                             cfg)
                    ELSE getMemoryStatus(owners[i].pod, cfg)

\* C7: the number of data rows equals the sum over pods of max(1, number of
\* containers): one row per container, in container order and with the
\* container name, and one row with an empty container name for a pod
\* without containers.
C7_RowCount ==
    rendered =>
        LET owners == RowOwners(Val(report).Pods)
        IN /\ Len(RowWrites) = ExpectedRowCount(Val(report).Pods)
           /\ Len(RowWrites) = Len(owners)
           /\ \A i \in 1..Len(owners) :
                 /\ RowWrites[i].fields[3] = owners[i].pod.Namespace
                 /\ RowWrites[i].fields[4] = owners[i].pod.PodName
                 /\ RowWrites[i].fields[12] =
                       IF Has(owners[i].container)
                       THEN Val(owners[i].container).ContainerName
                       ELSE ""

\* a pod with two containers followed by a pod without containers: 3 rows
C7_Witness ==
    /\ rendered
    /\ Len(Val(report).Pods) = 2
    /\ Len(Val(report).Pods[1].Containers) = 2
    /\ Len(Val(report).Pods[2].Containers) = 0
    /\ Len(RowWrites) = 3
    /\ RowWrites[3].fields[12] = ""

FixedColumns == 12

\* the field of a row for the i-th configured label and annotation
LabelField(w, i) == w.fields[FixedColumns + i]

AnnotationField(w, i) == w.fields[FixedColumns + Len(cfg.Labels) + i]

\* C27: every record, of a container or of a pod without containers, has
\* as many fields as the header of the same configuration: 12 fixed columns,
\* then one per configured label, then one per configured annotation, with
\* the pod's value (an annotation's line breaks as spaces) or an empty
\* string for a label or annotation the pod does not have
C27_RecordMatchesHeader ==
    rendered =>
        /\ Len(buildHeader(cfg)) = FixedColumns + Len(cfg.Labels) + Len(cfg.Annotations)
        /\ \A h \in 1..Len(writes) :
              writes[h].kind = "header" => writes[h].fields = buildHeader(cfg)
        /\ Len(RowWrites) = Len(RowOwners(Val(report).Pods))
        /\ \A r \in 1..Len(RowWrites) :
              /\ Len(RowWrites[r].fields) = Len(buildHeader(cfg))
              /\ \A i \in 1..Len(cfg.Labels) :
                    LabelField(RowWrites[r], i) =
                        IF MapHas(RowOwners(Val(report).Pods)[r].pod.Labels, cfg.Labels[i])
                        THEN MapGet(RowOwners(Val(report).Pods)[r].pod.Labels, cfg.Labels[i])
                        ELSE <<>>
              /\ \A i \in 1..Len(cfg.Annotations) :
                    IF MapHas(RowOwners(Val(report).Pods)[r].pod.Annotations,
                              cfg.Annotations[i])
                    THEN /\ Len(AnnotationField(RowWrites[r], i)) =
                               Len(MapGet(RowOwners(Val(report).Pods)[r].pod.Annotations,
                                          cfg.Annotations[i]))
                         /\ \A k \in 1..Len(AnnotationField(RowWrites[r], i)) :
                               AnnotationField(RowWrites[r], i)[k] \in
                                   {MapGet(RowOwners(Val(report).Pods)[r].pod.Annotations,
                                           cfg.Annotations[i])[k], " "}
                    ELSE AnnotationField(RowWrites[r], i) = <<>>

\* two configured labels: the container row of a pod that has the second
\* one only, and the row of a pod without containers and without labels
C27_Witness ==
    /\ rendered
    /\ Len(cfg.Labels) = 2
    /\ Len(RowWrites) = 2
    /\ RowWrites[1].fields[12] # ""
    /\ Len(RowWrites[1].fields) = 14
    /\ RowWrites[1].fields[13] = <<>>
    /\ RowWrites[1].fields[14] = <<"w", "e", "b">>
    /\ RowWrites[2].fields[12] = ""
    /\ Len(RowWrites[2].fields) = 14
    /\ RowWrites[2].fields[13] = <<>>

\* the Writes of the same call on a writer that never fails
UnbrokenWrites == FormatReport(Val(report), cfg, showHeader, 0)

\* C21: when a Write fails, every record of the report is still handed to
\* the writer, container rows and pod rows alike, in the order and with the
\* fields of a rendering without failure; each failed Write is reported by
\* itself and none ends the rendering
C21_RowFailureDoesNotAbort ==
    (rendered /\ failFrom > 0) =>
        /\ Len(writes) = Len(UnbrokenWrites)
        /\ Len(RowWrites) = ExpectedRowCount(Val(report).Pods)
        /\ \A i \in 1..Len(writes) :
              /\ writes[i].kind = UnbrokenWrites[i].kind
              /\ writes[i].fields = UnbrokenWrites[i].fields
              /\ writes[i].err <=> i >= failFrom

\* a container row fails and a later pod row is attempted all the same
C21_Witness ==
    /\ rendered
    /\ failFrom > 0
    /\ \E i, j \in 1..Len(writes) :
          /\ i < j
          /\ writes[i].kind = "row" /\ writes[i].err /\ writes[i].fields[12] # ""
          /\ writes[j].kind = "row" /\ writes[j].err /\ writes[j].fields[12] = ""

----------------------------------------------------------------------------
(* Specification SpecCollect: one all-namespaces collection.                 *)

MaxNamespaces == 2

NamespaceNames == <<"ns1", "ns2", "ns3", "ns4">>

Container(name, request, limit) == [Name |-> name, Requests |-> request, Limits |-> limit]

ReadyPod(ns, name, cs) ==
    [Namespace |-> ns, Name |-> name, Phase |-> "Running",
     Conditions |-> <<[Type |-> "Ready", Status |-> "True"]>>,
     Labels |-> {}, Annotations |-> {}, Containers |-> cs]

PendingPod(ns, name, cs) ==
    [Namespace |-> ns, Name |-> name, Phase |-> "Pending", Conditions |-> <<>>,
     Labels |-> {}, Annotations |-> {}, Containers |-> cs]

PodMetrics(name, entries) == [Name |-> name, Containers |-> entries]
Usage(name, usage) == [Name |-> name, Usage |-> usage]

Namespace(name, pods, podsErr, podMetrics, metricsErr) ==
    [Name |-> name, Pods |-> pods, PodsErr |-> podsErr,
     PodMetrics |-> podMetrics, MetricsErr |-> metricsErr]

\* what one namespace may hold and answer
NamespaceStates(name) ==
    LET web == ReadyPod(name, "web", <<Container("a", Some(2), Some(4))>>)
        job == PendingPod(name, "job", <<Container("a", Some(2), Nil),
                                         Container("b", Nil, Nil)>>)
        webMetrics == PodMetrics("web", <<Usage("a", Some(3))>>)
    IN { Namespace(name, <<>>, FALSE, <<>>, FALSE),
         Namespace(name, <<web>>, FALSE, <<webMetrics>>, FALSE),
         Namespace(name, <<web, job>>, FALSE, <<webMetrics>>, FALSE),
         \* the metrics API fails, the pod list does not
         Namespace(name, <<web, job>>, FALSE, <<webMetrics>>, TRUE),
         \* listing the pods fails
         Namespace(name, <<web, job>>, TRUE, <<webMetrics>>, FALSE) }

RECURSIVE NamespaceLists(_)
NamespaceLists(n) ==
    IF n = 0 THEN {<<>>}
    ELSE {Append(l, ns) : l \in NamespaceLists(n - 1),
                          ns \in NamespaceStates(NamespaceNames[n])}

Clusters ==
    [ListErr : BOOLEAN,
     Namespaces : UNION {NamespaceLists(n) : n \in 0..MaxNamespaces}]

InitCollect ==
    /\ PodIdle
    /\ AnalysisIdle
    /\ CsvIdle
    /\ cfg = DefaultConfig
    /\ cluster \in {Some(cl) : cl \in Clusters}
    /\ collected = Nil
    /\ nsCollected = <<>>
    /\ MainIdle

Collect ==
    /\ Has(cluster)
    /\ collected = Nil
    /\ collected' = Some(getAllNamespacesPodsMemoryInfo(Val(cluster), 1))
    /\ nsCollected' = namespaceResults(Val(cluster))
    /\ UNCHANGED <<podVars, analysisVars, csvVars, mainVars, configVars, annotationVars, cfg, cluster>>

NextCollect == Collect

SpecCollect == InitCollect /\ [][NextCollect]_vars

----------------------------------------------------------------------------
(* Properties of the collection (SpecCollect) *)

Count(sq, Test(_)) == Cardinality({i \in 1..Len(sq) : Test(sq[i])})

RECURSIVE SumSeq(_)
SumSeq(sq) == IF Len(sq) = 0 THEN 0 ELSE Head(sq) + SumSeq(Tail(sq))

SumOf(sq, F(_)) == SumSeq([i \in 1..Len(sq) |-> F(sq[i])])

Listable == {i \in 1..Len(Val(cluster).Namespaces) : ~Val(cluster).Namespaces[i].PodsErr}
Unlistable == {i \in 1..Len(Val(cluster).Namespaces) : Val(cluster).Namespaces[i].PodsErr}

\* C9: when listing pods fails for some namespaces and succeeds for others,
\* the all-namespaces collection succeeds: the pods returned are exactly those
\* of the namespaces that succeeded, TotalPods, the other counts and the byte
\* totals sum those pods only, and NamespaceCount is the number of namespaces
\* enumerated, the failed ones included.
C9_PartialNamespaceFailure ==
    (Has(collected) /\ ~Val(cluster).ListErr) =>
        LET nss == Val(cluster).Namespaces
            res == Val(collected)
            sm == Val(res.summary)
            inNs(name) == LET t(q) == q.Namespace = name IN Count(res.pods, t)
            hasUsage(q) == Has(q.CurrentUsage)
            hasRequest(q) == Has(q.MemoryRequest)
            hasLimit(q) == Has(q.MemoryLimit)
            running(q) == q.Phase = "Running"
            usageOf(q) == IF Has(q.CurrentUsage) THEN Val(q.CurrentUsage) ELSE 0
            requestOf(q) == IF Has(q.MemoryRequest) THEN Val(q.MemoryRequest) ELSE 0
            limitOf(q) == IF Has(q.MemoryLimit) THEN Val(q.MemoryLimit) ELSE 0
        IN /\ ~res.err
           /\ \A i \in Listable : inNs(nss[i].Name) = Len(nss[i].Pods)
           /\ \A i \in Unlistable : inNs(nss[i].Name) = 0
           /\ \A i \in 1..Len(res.pods) :
                 \E j \in Listable :
                    /\ nss[j].Name = res.pods[i].Namespace
                    /\ \E k \in 1..Len(nss[j].Pods) : nss[j].Pods[k].Name = res.pods[i].PodName
           /\ sm.TotalPods = Len(res.pods)
           /\ sm.RunningPods = Count(res.pods, running)
           /\ sm.PodsWithMetrics = Count(res.pods, hasUsage)
           /\ sm.PodsWithRequests = Count(res.pods, hasRequest)
           /\ sm.PodsWithLimits = Count(res.pods, hasLimit)
           /\ sm.TotalMemoryUsage = SumOf(res.pods, usageOf)
           /\ sm.TotalMemoryRequest = SumOf(res.pods, requestOf)
           /\ sm.TotalMemoryLimit = SumOf(res.pods, limitOf)
           /\ sm.NamespaceCount = Len(nss)

\* the namespaces that were collected, as indices of nsCollected
Collected == {i \in 1..Len(nsCollected) : ~nsCollected[i].err}

\* the namespaces whose pods were listed and whose metrics were not
MetricsFailed ==
    {i \in 1..Len(Val(cluster).Namespaces) :
        ~Val(cluster).Namespaces[i].PodsErr /\ Val(cluster).Namespaces[i].MetricsErr}

AllDeclare(rawPod, field) ==
    \A k \in 1..Len(rawPod.Containers) : Has(rawPod.Containers[k][field])

Declared(rawPod, field) ==
    [k \in 1..Len(rawPod.Containers) |-> rawPod.Containers[k][field]]

\* the sample of a pod whose metrics are missing: no usage on the pod nor
\* on a container, status no_data, totals from the declared values
SampleWithoutMetrics(info, rawPod) ==
    /\ info.PodName = rawPod.Name
    /\ info.Namespace = rawPod.Namespace
    /\ ~Has(info.CurrentUsage)
    /\ Len(info.Containers) = Len(rawPod.Containers)
    /\ \A k \in 1..Len(info.Containers) : ~Has(info.Containers[k].CurrentUsage)
    /\ getMemoryStatus(CalculateUsagePercent(info), cfg) = "no_data"
    /\ Has(info.MemoryRequest) <=> AllDeclare(rawPod, "Requests")
    /\ Has(info.MemoryRequest) => Val(info.MemoryRequest) = SumVals(Declared(rawPod, "Requests"))
    /\ Has(info.MemoryLimit) <=> AllDeclare(rawPod, "Limits")
    /\ Has(info.MemoryLimit) => Val(info.MemoryLimit) = SumVals(Declared(rawPod, "Limits"))

\* C30: a namespace whose metrics cannot be fetched and whose pods can be
\* listed is not skipped: each of its pods is returned, without usage on the
\* pod and on every container, with status no_data and its request and limit
\* totals; the namespace counts its pods with requests and with limits, and
\* adds 0 to PodsWithMetrics and to TotalMemoryUsage
C30_MetricsFailureKeepsPods ==
    (Has(collected) /\ ~Val(cluster).ListErr) =>
        \A i \in MetricsFailed :
            /\ ~nsCollected[i].err
            /\ Len(nsCollected[i].pods) = Len(Val(cluster).Namespaces[i].Pods)
            /\ \A k \in 1..Len(nsCollected[i].pods) :
                  /\ SampleWithoutMetrics(nsCollected[i].pods[k],
                                          Val(cluster).Namespaces[i].Pods[k])
                  /\ \E j \in 1..Len(Val(collected).pods) :
                        Val(collected).pods[j] = nsCollected[i].pods[k]
            /\ Val(nsCollected[i].summary).PodsWithMetrics = 0
            /\ Val(nsCollected[i].summary).TotalMemoryUsage = 0
            /\ Val(nsCollected[i].summary).PodsWithRequests =
                  Cardinality({k \in 1..Len(Val(cluster).Namespaces[i].Pods) :
                                  AllDeclare(Val(cluster).Namespaces[i].Pods[k], "Requests")})
            /\ Val(nsCollected[i].summary).PodsWithLimits =
                  Cardinality({k \in 1..Len(Val(cluster).Namespaces[i].Pods) :
                                  AllDeclare(Val(cluster).Namespaces[i].Pods[k], "Limits")})
            /\ Val(nsCollected[i].summary).TotalMemoryRequest =
                  SumVals([k \in 1..Len(nsCollected[i].pods) |->
                              nsCollected[i].pods[k].MemoryRequest])

\* a namespace without metrics next to one with metrics: its two pods are
\* returned, one of them with a request and a limit total
C30_Witness ==
    /\ Has(collected)
    /\ ~Val(cluster).ListErr
    /\ Len(Val(cluster).Namespaces) = 2
    /\ MetricsFailed = {2}
    /\ Len(nsCollected[2].pods) = 2
    /\ Val(nsCollected[2].summary).PodsWithRequests = 1
    /\ Val(nsCollected[2].summary).PodsWithLimits = 1
    /\ Val(nsCollected[2].summary).PodsWithMetrics = 0
    /\ Val(nsCollected[1].summary).PodsWithMetrics = 1
    /\ Val(Val(collected).summary).PodsWithMetrics = 1
    /\ Val(Val(collected).summary).PodsWithRequests = 2

\* the sum of one field of the summaries of the namespaces collected
RECURSIVE SumField(_, _)
SumField(indices, field) ==
    IF indices = {} THEN 0
    ELSE LET i == CHOOSE j \in indices : TRUE
         IN Val(nsCollected[i].summary)[field] + SumField(indices \ {i}, field)

SummedFields ==
    {"RunningPods", "PodsWithMetrics", "PodsWithRequests", "PodsWithLimits",
     "TotalMemoryUsage", "TotalMemoryRequest", "TotalMemoryLimit"}

\* C16: the summary of a namespace is the fold of its pod samples:
\* PodsWithMetrics counts the pods with a usage value and TotalMemoryUsage sums
\* exactly those usages, likewise PodsWithRequests / TotalMemoryRequest for the
\* pod-level request and PodsWithLimits / TotalMemoryLimit for the limit, and
\* RunningPods counts the pods in phase Running; the cluster summary is the
\* sum of the summaries of the namespaces collected.
C16_SummaryIsFold ==
    (Has(collected) /\ ~Val(collected).err) =>
        /\ \A i \in Collected :
              LET r == nsCollected[i]
                  sm == Val(r.summary)
                  hasUsage(q) == Has(q.CurrentUsage)
                  hasRequest(q) == Has(q.MemoryRequest)
                  hasLimit(q) == Has(q.MemoryLimit)
                  running(q) == q.Phase = "Running"
                  usageOf(q) == IF Has(q.CurrentUsage) THEN Val(q.CurrentUsage) ELSE 0
                  requestOf(q) == IF Has(q.MemoryRequest) THEN Val(q.MemoryRequest) ELSE 0
                  limitOf(q) == IF Has(q.MemoryLimit) THEN Val(q.MemoryLimit) ELSE 0
              IN /\ Len(r.pods) = Len(Val(cluster).Namespaces[i].Pods)
                 /\ sm.PodsWithMetrics = Count(r.pods, hasUsage)
                 /\ sm.TotalMemoryUsage = SumOf(r.pods, usageOf)
                 /\ sm.PodsWithRequests = Count(r.pods, hasRequest)
                 /\ sm.TotalMemoryRequest = SumOf(r.pods, requestOf)
                 /\ sm.PodsWithLimits = Count(r.pods, hasLimit)
                 /\ sm.TotalMemoryLimit = SumOf(r.pods, limitOf)
                 /\ sm.RunningPods = Count(r.pods, running)
        /\ \A field \in SummedFields :
              Val(Val(collected).summary)[field] = SumField(Collected, field)

\* two namespaces collected; the first holds a running pod with usage,
\* request and limit and a pending pod with none of them
C16_Witness ==
    /\ Has(collected)
    /\ ~Val(collected).err
    /\ Collected = {1, 2}
    /\ Len(nsCollected[1].pods) = 2
    /\ Val(nsCollected[1].summary).PodsWithMetrics = 1
    /\ Val(nsCollected[1].summary).PodsWithRequests = 1
    /\ Val(nsCollected[1].summary).PodsWithLimits = 1
    /\ Val(nsCollected[1].summary).RunningPods = 1
    /\ Val(nsCollected[1].summary).TotalMemoryUsage = 3
    /\ Len(nsCollected[2].pods) >= 1
    /\ Val(Val(collected).summary).TotalMemoryUsage = 6

\* ns1 answers with two pods, listing ns2 fails: two pods, two namespaces
C9_Witness ==
    /\ Has(collected)
    /\ ~Val(cluster).ListErr
    /\ Len(Val(cluster).Namespaces) = 2
    /\ ~Val(cluster).Namespaces[1].PodsErr
    /\ Len(Val(cluster).Namespaces[1].Pods) = 2
    /\ Val(cluster).Namespaces[2].PodsErr
    /\ ~Val(collected).err
    /\ Val(Val(collected).summary).TotalPods = 2
    /\ Val(Val(collected).summary).NamespaceCount = 2

----------------------------------------------------------------------------
(* internal/monitor/monitor.go and cmd/k8s-memory-watch/main.go *)

\* the names of the model in Go's string order
NameOrder == <<"job", "ns1", "ns2", "ns3", "ns4", "web">>

StrLess(a, b) ==
    \E i, j \in 1..Len(NameOrder) : NameOrder[i] = a /\ NameOrder[j] = b /\ i < j

\* the less function of sort.Slice in CollectMemoryInfo
podLess(p, q) ==
    IF p.Namespace # q.Namespace THEN StrLess(p.Namespace, q.Namespace)
    ELSE StrLess(p.PodName, q.PodName)

RECURSIVE insertPod(_, _)
insertPod(sorted, p) ==
    IF Len(sorted) = 0 THEN <<p>>
    ELSE IF podLess(p, Head(sorted)) THEN <<p>> \o sorted
    ELSE <<Head(sorted)>> \o insertPod(Tail(sorted), p)

RECURSIVE sortPods(_)
sortPods(pods) ==
    IF Len(pods) = 0 THEN <<>>
    ELSE insertPod(sortPods(SubSeq(pods, 1, Len(pods) - 1)), pods[Len(pods)])

\* the report of a collection that succeeded, or the error
reportOf(got) ==
    IF got.err THEN [err |-> TRUE, report |-> Nil]
    ELSE [err |-> FALSE,
          report |-> Some([Summary |-> Val(got.summary), Pods |-> sortPods(got.pods)])]

CollectMemoryInfo(cl, now) == reportOf(GetAllPodsMemoryInfo(cl, now))

\* %.1f of a percentage, in tenths
formatTenths(pct) == (2 * 10 * pct.num + pct.den) \div (2 * pct.den)

\* a variant that compares with the default threshold
overWarningDefault(p, warn) ==
    Has(p.UsagePercent) /\ PctGE(Val(p.UsagePercent), DefaultWarningPercent)

overWarning(p, warn) == Has(p.UsagePercent) /\ PctGE(Val(p.UsagePercent), warn)

\* a variant whose request threshold is exclusive
overRequestExclusive(p, warn) ==
    /\ overWarning(p, warn)
    /\ Val(p.UsagePercent).num > CriticalRequestPercent * Val(p.UsagePercent).den

overRequest(p, warn) ==
    overWarning(p, warn) /\ PctGE(Val(p.UsagePercent), CriticalRequestPercent)

overLimit(p) ==
    Has(p.LimitUsagePercent) /\ PctGE(Val(p.LimitUsagePercent), CriticalLimitPercent)

\* a finding: "Pod <ns>/<pod> is using <tenths/10>% of its memory request",
\* "... of its memory limit", "... has no memory limit defined",
\* "... has no memory request defined"
Finding(kind, p, tenths) ==
    [kind |-> kind, namespace |-> p.Namespace, pod |-> p.PodName,
     container |-> "", tenths |-> tenths]

\* the findings on a pod with usage, its percentages calculated
problemsOf(p, warn) ==
    (IF overRequest(p, warn)
     THEN <<Finding("request", p, formatTenths(Val(p.UsagePercent)))>>
     ELSE <<>>)
    \o (IF overLimit(p)
        THEN <<Finding("limit", p, formatTenths(Val(p.LimitUsagePercent)))>>
        ELSE <<>>)
    \o (IF ~Has(p.MemoryLimit) THEN <<Finding("no limit", p, 0)>> ELSE <<>>)
    \o (IF ~Has(p.MemoryRequest) THEN <<Finding("no request", p, 0)>> ELSE <<>>)

judgePod(p, warn) ==
    [high |-> (IF overRequest(p, warn) THEN <<p>> ELSE <<>>)
              \o (IF overLimit(p) THEN <<p>> ELSE <<>>),
     warning |-> IF overWarning(p, warn) THEN <<p>> ELSE <<>>,
     problems |-> problemsOf(p, warn)]

\* a variant that does not skip the pods without usage
analyzePodUnskipped(q, warn) == judgePod(CalculateUsagePercent(q), warn)

\* what the loop of AnalyzeMemoryUsage appends for one pod
analyzePod(q, warn) ==
    IF ~Has(q.CurrentUsage)
    THEN [high |-> <<>>, warning |-> <<>>, problems |-> <<>>]
    ELSE judgePod(CalculateUsagePercent(q), warn)

appendFindings(acc, one) ==
    [HighUsagePods |-> acc.HighUsagePods \o one.high,
     WarningPods |-> acc.WarningPods \o one.warning,
     ProblemsFound |-> acc.ProblemsFound \o one.problems]

RECURSIVE analyzePods(_, _, _)
analyzePods(pods, warn, n) ==
    IF n = 0 THEN [HighUsagePods |-> <<>>, WarningPods |-> <<>>, ProblemsFound |-> <<>>]
    ELSE appendFindings(analyzePods(pods, warn, n - 1), analyzePod(pods[n], warn))

analysisOf(r, found) ==
    [Report |-> r,
     HighUsagePods |-> found.HighUsagePods,
     WarningPods |-> found.WarningPods,
     ProblemsFound |-> found.ProblemsFound]

analyzeCollected(got, c) ==
    IF got.err THEN [err |-> TRUE, analysis |-> Nil]
    ELSE [err |-> FALSE,
          analysis |-> Some(analysisOf(Val(got.report),
                                       analyzePods(Val(got.report).Pods,
                                                   c.MemoryWarningPercent,
                                                   Len(Val(got.report).Pods))))]

AnalyzeMemoryUsage(cl, c, now) == analyzeCollected(CollectMemoryInfo(cl, now), c)

\* what a cycle does with the analysis: its writes to the CSV stream, what
\* it prints of the analysis, and csvHeaderPrinted after it
render(got, c, headerPrinted, brokenFrom, headerPrintedAfter) ==
    IF got.err
    THEN [err |-> TRUE, analysis |-> Nil, csv |-> FALSE, out |-> <<>>,
          high |-> <<>>, warning |-> <<>>, csvHeaderPrinted |-> headerPrinted]
    ELSE IF c.Output = "csv"
    THEN [err |-> FALSE, analysis |-> got.analysis, csv |-> TRUE,
          out |-> FormatReport(Val(got.analysis).Report, c, ~headerPrinted, brokenFrom),
          high |-> <<>>, warning |-> <<>>, csvHeaderPrinted |-> headerPrintedAfter]
    ELSE [err |-> FALSE, analysis |-> got.analysis, csv |-> FALSE, out |-> <<>>,
          high |-> printHighUsagePods(Val(got.analysis)),
          warning |-> printWarningPods(Val(got.analysis)),
          csvHeaderPrinted |-> headerPrinted]

\* a variant that never sets csvHeaderPrinted
runMemoryCheckFlagUnset(cl, c, now, headerPrinted, brokenFrom) ==
    render(AnalyzeMemoryUsage(cl, c, now), c, headerPrinted, brokenFrom, headerPrinted)

runMemoryCheck(cl, c, now, headerPrinted, brokenFrom) ==
    render(AnalyzeMemoryUsage(cl, c, now), c, headerPrinted, brokenFrom, TRUE)

----------------------------------------------------------------------------
(* Specification Spec: the process, from the health check to its return.     *)

MaxCycles == 3

\* what the API server may answer in one cycle
MainClusters ==
    LET one == CHOOSE ns \in NamespaceStates("ns1") : Len(ns.Pods) = 1
        two(name) == CHOOSE ns \in NamespaceStates(name) :
                        Len(ns.Pods) = 2 /\ ~ns.PodsErr /\ ~ns.MetricsErr
        broken(name) == CHOOSE ns \in NamespaceStates(name) : ns.PodsErr
    IN { [ListErr |-> TRUE, Namespaces |-> <<>>],
         [ListErr |-> FALSE, Namespaces |-> <<>>],
         [ListErr |-> FALSE, Namespaces |-> <<one>>],
         [ListErr |-> FALSE, Namespaces |-> <<two("ns2"), one>>],
         [ListErr |-> FALSE, Namespaces |-> <<two("ns1"), broken("ns2")>>] }

MainConfigs ==
    { Config(DefaultWarningPercent, <<>>, <<>>, "csv"),
      Config(DefaultWarningPercent, <<>>, <<>>, "table") }

Init ==
    /\ ConfigIdle
    /\ AnnotationIdle
    /\ PodIdle
    /\ AnalysisIdle
    /\ CsvIdle
    /\ CollectIdle
    /\ cfg \in MainConfigs
    /\ pc = "health"
    /\ csvHeaderPrinted = FALSE
    /\ cycles = 0
    /\ renders = 0
    /\ cancelled = FALSE
    /\ sigChan = 0

\* memMonitor.HealthCheck(ctx): on an error main cancels and returns
HealthCheck ==
    /\ pc = "health"
    /\ \E ok \in BOOLEAN :
          /\ pc' = IF ok THEN "initial" ELSE "done"
          /\ cancelled' = ~ok
    /\ UNCHANGED <<podVars, analysisVars, csvVars, collectVars, configVars, annotationVars, cfg,
                   csvHeaderPrinted, cycles, renders, sigChan>>

\* the state after a cycle that rendered nothing, or rendered res
Rendered(res, brokenFrom) ==
    IF res.err
    THEN UNCHANGED <<analysisVars, csvVars, renders>>
    ELSE /\ analysis' = res.analysis
         /\ report' = Some([Val(res.analysis).Report EXCEPT !.Pods = calculatedPods(@)])
         /\ IF res.csv
            THEN /\ renders' = renders + 1
                 /\ writes' = writes \o Stamp(res.out, renders + 1)
                 /\ showHeader' = ~csvHeaderPrinted
                 /\ failFrom' = brokenFrom
                 /\ rendered' = TRUE
                 /\ UNCHANGED <<shownHigh, shownWarn, printed>>
            ELSE /\ shownHigh' = res.high
                 /\ shownWarn' = res.warning
                 /\ printed' = TRUE
                 /\ UNCHANGED <<renders, writes, showHeader, failFrom, rendered>>

\* the body of runMemoryCheck against one answer of the API server
Cycle ==
    \E cl \in MainClusters, brokenFrom \in 0..1 :
        /\ cycles' = cycles + 1
        /\ cluster' = Some(cl)
        /\ collected' = Some(GetAllPodsMemoryInfo(cl, cycles + 1))
        /\ nsCollected' = namespaceResults(cl)
        /\ csvHeaderPrinted' =
               runMemoryCheck(cl, cfg, cycles + 1, csvHeaderPrinted, brokenFrom).csvHeaderPrinted
        /\ Rendered(runMemoryCheck(cl, cfg, cycles + 1, csvHeaderPrinted, brokenFrom), brokenFrom)
        /\ UNCHANGED <<podVars, configVars, annotationVars, cfg, cancelled, sigChan>>

\* main.go 143: the check before the ticker starts
InitialCheck ==
    /\ pc = "initial"
    /\ Cycle
    /\ pc' = "loop"

\* a variant that leaves the loop when the cycle fails
TickStoppingOnError ==
    /\ pc = "loop"
    /\ cycles < MaxCycles
    /\ Cycle
    /\ pc' = IF Val(collected').err THEN "done" ELSE pc

\* main.go 159: case <-ticker.C
Tick ==
    /\ pc = "loop"
    /\ cycles < MaxCycles
    /\ Cycle
    /\ pc' = pc

\* a SIGINT or SIGTERM reaches the process once signal.Notify is set up
Signal ==
    /\ pc \in {"initial", "loop"}
    /\ sigChan = 0
    /\ sigChan' = 1
    /\ UNCHANGED <<podVars, analysisVars, csvVars, collectVars, configVars, annotationVars, cfg,
                   pc, csvHeaderPrinted, cycles, renders, cancelled>>

\* a variant of the goroutine that does not cancel
ShutdownWithoutCancel ==
    /\ pc \in {"initial", "loop"}
    /\ ~cancelled
    /\ sigChan = 1
    /\ sigChan' = 0
    /\ UNCHANGED <<podVars, analysisVars, csvVars, collectVars, configVars, annotationVars, cfg,
                   pc, csvHeaderPrinted, cycles, renders, cancelled>>

\* main.go 129-135: the goroutine receives the signal and cancels
Shutdown ==
    /\ pc \in {"initial", "loop"}
    /\ ~cancelled
    /\ sigChan = 1
    /\ sigChan' = 0
    /\ cancelled' = TRUE
    /\ UNCHANGED <<podVars, analysisVars, csvVars, collectVars, configVars, annotationVars, cfg,
                   pc, csvHeaderPrinted, cycles, renders>>

\* main.go 153: case <-ctx.Done()
Return ==
    /\ pc = "loop"
    /\ cancelled
    /\ pc' = "done"
    /\ UNCHANGED <<podVars, analysisVars, csvVars, collectVars, configVars, annotationVars, cfg,
                   csvHeaderPrinted, cycles, renders, cancelled, sigChan>>

Next ==
    \/ HealthCheck
    \/ InitialCheck
    \/ Tick
    \/ Signal
    \/ Shutdown
    \/ Return

Spec == Init /\ [][Next]_vars

\* The goroutine waiting on sigChan is scheduled once the signal is there, a
\* cycle in progress finishes, and the select takes the ctx.Done case once
\* it is the ready one (the ticker is ready only now and then).
SpecLive ==
    /\ Spec
    /\ WF_vars(Shutdown)
    /\ WF_vars(InitialCheck)
    /\ WF_vars(Return)

----------------------------------------------------------------------------
(* Properties of the process (Spec) *)

Headers == {i \in 1..Len(writes) : writes[i].kind = "header"}

\* C8: over any sequence of cycles of one process in CSV mode the header row
\* is written at most once, and only by the first invocation of the renderer;
\* every later invocation writes data rows only.
C8_HeaderAtMostOnce ==
    /\ Cardinality(Headers) <= 1
    /\ \A i \in Headers : writes[i].call = 1
    /\ \A i \in 1..Len(writes) : writes[i].call > 1 => writes[i].kind = "row"

\* two renderings: the first wrote the header, the second wrote rows
C8_Witness ==
    /\ cfg.Output = "csv"
    /\ renders >= 2
    /\ \E i \in Headers : writes[i].call = 1
    /\ \E i \in 1..Len(writes) : writes[i].call = 2 /\ writes[i].kind = "row"

\* the step is a memory-check cycle, and the cycle failed
FailedCycle == cycles' = cycles + 1 /\ Val(collected').err

\* C28: a cycle that fails, the initial one or one of a tick, leaves the
\* process in its loop with the context as it was; the process ends only
\* once the context is cancelled, and until then every tick starts a cycle
C28_FailedCycleKeepsLooping ==
    /\ [][FailedCycle => (pc' = "loop" /\ cancelled' = cancelled)]_vars
    /\ [](pc = "done" => cancelled)
    /\ []((pc = "loop" /\ cycles < MaxCycles) => ENABLED Tick)

\* the first cycle failed and a later one rendered
C28_Witness ==
    /\ cfg.Output = "csv"
    /\ pc = "loop"
    /\ ~cancelled
    /\ cycles = 2
    /\ renders = 1
    /\ ~Val(collected).err

\* C29: once a signal is delivered with the loop set up, the context is
\* cancelled and the main loop returns
C29_SignalLeadsToReturn ==
    /\ (sigChan = 1) ~> cancelled
    /\ (sigChan = 1) ~> (pc = "done")
    /\ cancelled ~> (pc = "done")

\* the signal was taken during the loop, and main has returned
C29_Witness ==
    /\ pc = "done"
    /\ cancelled
    /\ sigChan = 0
    /\ cycles >= 2

\* the Writes that reached the output
Written(i) == ~writes[i].err

\* C23: in CSV mode no data row is written to the output before the header
\* row, over any sequence of cycles, cycles that fail before rendering
\* included
C23_NoRowBeforeHeader ==
    cfg.Output = "csv" =>
        \A i \in 1..Len(writes) :
            (writes[i].kind = "row" /\ Written(i)) =>
                \E j \in 1..(i - 1) : writes[j].kind = "header" /\ Written(j)

\* every row is handed to the writer after the header was handed to it, and
\* the first rendering is the one that hands over the header
HeaderHandedOverFirst ==
    cfg.Output = "csv" =>
        /\ \A i \in 1..Len(writes) :
              writes[i].kind = "row" => \E j \in 1..(i - 1) : writes[j].kind = "header"
        /\ renders >= 1 => (Len(writes) >= 1 /\ writes[1].kind = "header")
        /\ csvHeaderPrinted <=> renders >= 1

----------------------------------------------------------------------------
(* Specification SpecDetect: the loop of AnalyzeMemoryUsage over a report as *)
(* the collection builds it, and the status of each of its pods.             *)

MaxDetectPods == 2

DetectNames == <<"p1", "p2", "p3", "p4">>

DetectUsageValues == {10, 16, 19}
DetectRequestValues == {0, 20}
DetectLimitValues == {20}

\* what the pod at one position of the report may be
DetectPods(name) ==
    { PodSample("ns", name, "Running", TRUE, usage, request, limit, <<>>) :
          usage \in Opt(DetectUsageValues),
          request \in Opt(DetectRequestValues),
          limit \in Opt(DetectLimitValues) }
    \cup
    { \* 95% of the request, under half of the limit
      PodSample("ns", name, "Running", TRUE, Some(19), Some(20), Some(40), <<>>),
      \* 950Mi of a request and a limit of 1000Mi, one container
      PodSample("ns", name, "Running", TRUE, Some(950), Some(1000), Some(1000),
                <<ContainerSample("app", Some(950), Some(1000), Some(1000))>>),
      \* container a over its request and limit, container b without a limit
      PodSample("ns", name, "Running", TRUE, Some(600), Some(700), Nil,
                <<ContainerSample("a", Some(500), Some(400), Some(512)),
                  ContainerSample("b", Some(100), Some(300), Nil)>>),
      \* the same containers under a pod without pod-level values
      PodSample("ns", name, "Running", TRUE, Nil, Nil, Nil,
                <<ContainerSample("a", Some(500), Some(400), Some(512)),
                  ContainerSample("b", Some(100), Some(300), Nil)>>) }

RECURSIVE DetectReports(_)
DetectReports(n) ==
    IF n = 0 THEN {<<>>}
    ELSE {Append(l, q) : l \in DetectReports(n - 1), q \in DetectPods(DetectNames[n])}

InitDetect ==
    /\ PodIdle
    /\ AnalysisIdle
    /\ CollectIdle
    /\ MainIdle
    /\ cfg \in {Config(w, <<>>, <<>>, "table") : w \in WarningPercents}
    /\ report \in {Some(Report(pods, 1)) :
                      pods \in UNION {DetectReports(n) : n \in 0..MaxDetectPods}}
    /\ showHeader = FALSE
    /\ failFrom = 0
    /\ writes = <<>>
    /\ rendered = FALSE

\* AnalyzeMemoryUsage once the report is collected
Analyze ==
    /\ analysis = Nil
    /\ analysis' = analyzeCollected([err |-> FALSE, report |-> report], cfg).analysis
    /\ UNCHANGED <<podVars, shownHigh, shownWarn, printed, csvVars, collectVars, mainVars, configVars, annotationVars, cfg>>

\* the status of each pod of the report, its percentages calculated
Classify ==
    /\ status = Nil
    /\ status' = Some([i \in 1..Len(Val(report).Pods) |->
                          getMemoryStatus(CalculateUsagePercent(Val(report).Pods[i]), cfg)])
    /\ UNCHANGED <<pod, metrics, podInfo, limStates, calculated, symbol,
                   analysisVars, csvVars, collectVars, mainVars, configVars, annotationVars, cfg>>

NextDetect == Analyze \/ Classify

SpecDetect == InitDetect /\ [][NextDetect]_vars

----------------------------------------------------------------------------
(* Properties of the problem detector (SpecDetect) *)

\* the entries of a list of pods, or of findings, that belong to pod q
PodsOf(listed, q) ==
    SelectSeq(listed, LAMBDA x : x.Namespace = q.Namespace /\ x.PodName = q.PodName)

FindingsOf(found, q) ==
    SelectSeq(found, LAMBDA f : f.namespace = q.Namespace /\ f.pod = q.PodName)

FindingsOfKind(found, q, kind) ==
    SelectSeq(FindingsOf(found, q), LAMBDA f : f.kind = kind)

\* C12: a pod with usage is in WarningPods if and only if its usage/request
\* percentage is defined and at least the configured warning percent; if the
\* percentage is also at least 95 the pod is added to HighUsagePods as well
\* and a finding "is using X% of its memory request" is appended for it.
C12_WarningByConfiguredPercent ==
    Has(analysis) =>
        \A i \in 1..Len(Val(report).Pods) :
            LET q == Val(report).Pods[i]
                a == Val(analysis)
                defined == Has(q.MemoryRequest) /\ Val(q.MemoryRequest) > 0
                warned == defined /\ 100 * Val(q.CurrentUsage)
                                        >= cfg.MemoryWarningPercent * Val(q.MemoryRequest)
                high == warned /\ 100 * Val(q.CurrentUsage) >= 95 * Val(q.MemoryRequest)
            IN Has(q.CurrentUsage) =>
                  /\ Len(PodsOf(a.WarningPods, q)) = (IF warned THEN 1 ELSE 0)
                  /\ Len(FindingsOfKind(a.ProblemsFound, q, "request")) = (IF high THEN 1 ELSE 0)
                  /\ high => /\ Len(PodsOf(a.HighUsagePods, q)) >= 1
                             /\ 2 * Val(q.MemoryRequest)
                                   * FindingsOfKind(a.ProblemsFound, q, "request")[1].tenths
                                  <= 2000 * Val(q.CurrentUsage) + Val(q.MemoryRequest)
                             /\ 2 * Val(q.MemoryRequest)
                                   * FindingsOfKind(a.ProblemsFound, q, "request")[1].tenths
                                  > 2000 * Val(q.CurrentUsage) - Val(q.MemoryRequest)
                  /\ (~high /\ Has(q.MemoryLimit) /\ 100 * Val(q.CurrentUsage) < 90 * Val(q.MemoryLimit))
                        => Len(PodsOf(a.HighUsagePods, q)) = 0

\* with a warning percent of 50, a pod at 50% is a warning pod and not a
\* high-usage pod, and a pod at 95% is both and has the finding
C12_Witness ==
    /\ Has(analysis)
    /\ cfg.MemoryWarningPercent = 50
    /\ Len(Val(report).Pods) = 2
    /\ Val(report).Pods[1].CurrentUsage = Some(10)
    /\ Val(report).Pods[1].MemoryRequest = Some(20)
    /\ Val(report).Pods[1].MemoryLimit = Some(20)
    /\ Val(report).Pods[2].CurrentUsage = Some(19)
    /\ Val(report).Pods[2].MemoryRequest = Some(20)
    /\ Len(Val(analysis).WarningPods) = 2
    /\ Len(PodsOf(Val(analysis).HighUsagePods, Val(report).Pods[1])) = 0
    /\ Len(PodsOf(Val(analysis).HighUsagePods, Val(report).Pods[2])) >= 1
    /\ \E i \in 1..Len(Val(analysis).ProblemsFound) :
          /\ Val(analysis).ProblemsFound[i].kind = "request"
          /\ Val(analysis).ProblemsFound[i].pod = "p2"
          /\ Val(analysis).ProblemsFound[i].tenths = 950

\* the pod of the scenario: usage 950Mi, request and limit 1000Mi, a single
\* fully configured container
IsScenarioPod(q) ==
    /\ q.CurrentUsage = Some(950)
    /\ q.MemoryRequest = Some(1000)
    /\ q.MemoryLimit = Some(1000)
    /\ Len(q.Containers) = 1

C24_NoPodTwice ==
    Has(analysis) =>
        \A i \in 1..Len(Val(report).Pods) :
            /\ Len(PodsOf(Val(analysis).HighUsagePods, Val(report).Pods[i])) <= 1
            /\ Len(PodsOf(Val(analysis).WarningPods, Val(report).Pods[i])) <= 1

\* WarningPods alone holds no pod twice
WarningPodsOnce ==
    Has(analysis) =>
        \A i \in 1..Len(Val(report).Pods) :
            Len(PodsOf(Val(analysis).WarningPods, Val(report).Pods[i])) <= 1

\* C25: for every warning percent in (0, 100], every pod whose status is
\* critical is in HighUsagePods after the analysis of the same report
C25_CriticalIsHighUsage ==
    (Has(analysis) /\ Has(status)
       /\ cfg.MemoryWarningPercent > 0 /\ cfg.MemoryWarningPercent <= 100) =>
        \A i \in 1..Len(Val(report).Pods) :
            Val(status)[i] = "critical" =>
                Len(PodsOf(Val(analysis).HighUsagePods, Val(report).Pods[i])) >= 1

\* with a warning percent of at most 95 a critical pod is in HighUsagePods
CriticalIsHighUsageUpTo95 ==
    (Has(analysis) /\ Has(status) /\ cfg.MemoryWarningPercent <= CriticalRequestPercent) =>
        \A i \in 1..Len(Val(report).Pods) :
            Val(status)[i] = "critical" =>
                Len(PodsOf(Val(analysis).HighUsagePods, Val(report).Pods[i])) >= 1

\* the pod of the per-container test: container a over its request and its
\* limit, container b with usage and without a limit
HasOverAndUnlimited(q) ==
    /\ Len(q.Containers) = 2
    /\ q.Containers[1].ContainerName = "a"
    /\ q.Containers[1].CurrentUsage = Some(500)
    /\ q.Containers[1].MemoryLimit = Some(512)
    /\ q.Containers[2].ContainerName = "b"
    /\ Has(q.Containers[2].CurrentUsage)
    /\ ~Has(q.Containers[2].MemoryLimit)

\* C14: every container is evaluated independently of its pod: for a pod
\* whose container a exceeds the thresholds and whose container b has usage
\* but no limit, ProblemsFound holds a finding "container a is using ..." and
\* a finding "container b has no memory limit defined", even when the
\* pod-level usage is absent.
C14_ContainerFindings ==
    Has(analysis) =>
        \A i \in 1..Len(Val(report).Pods) :
            HasOverAndUnlimited(Val(report).Pods[i]) =>
                LET found == FindingsOf(Val(analysis).ProblemsFound, Val(report).Pods[i])
                IN /\ \E k \in 1..Len(found) :
                         found[k].container = "a" /\ found[k].kind \in {"request", "limit"}
                   /\ \E k \in 1..Len(found) :
                         found[k].container = "b" /\ found[k].kind = "no limit"

\* C15: a pod with no usage value contributes nothing to the analysis: it is
\* in neither WarningPods nor HighUsagePods and no entry of ProblemsFound
\* refers to it, even when it declares no memory limit or no memory request.
C15_NoUsageNoFindings ==
    Has(analysis) =>
        \A i \in 1..Len(Val(report).Pods) :
            ~Has(Val(report).Pods[i].CurrentUsage) =>
                /\ Len(PodsOf(Val(analysis).WarningPods, Val(report).Pods[i])) = 0
                /\ Len(PodsOf(Val(analysis).HighUsagePods, Val(report).Pods[i])) = 0
                /\ Len(FindingsOf(Val(analysis).ProblemsFound, Val(report).Pods[i])) = 0

\* a pod without usage, limit and request next to a pod with usage and
\* without a limit: the findings are those of the second pod only
C15_Witness ==
    /\ Has(analysis)
    /\ Len(Val(report).Pods) = 2
    /\ ~Has(Val(report).Pods[1].CurrentUsage)
    /\ ~Has(Val(report).Pods[1].MemoryLimit)
    /\ ~Has(Val(report).Pods[1].MemoryRequest)
    /\ Has(Val(report).Pods[2].CurrentUsage)
    /\ ~Has(Val(report).Pods[2].MemoryLimit)
    /\ Len(Val(analysis).ProblemsFound) >= 1
    /\ \A k \in 1..Len(Val(analysis).ProblemsFound) : Val(analysis).ProblemsFound[k].pod = "p2"


\* ---------------------------------------------------------------------
\* internal/config/config.go: building the configuration from the
\* environment variables and the command line.  Durations are in seconds.
\* A text that strconv or time parses is a sequence of characters.

\* a float64: a number or NaN (every ordered comparison with NaN is false)
Float(n) == [nan |-> FALSE, val |-> n]

NaN == [nan |-> TRUE, val |-> 0]

FloatLE(a, b) == ~a.nan /\ ~b.nan /\ a.val <= b.val

FloatGT(a, b) == ~a.nan /\ ~b.nan /\ a.val > b.val

FloatNE(a, b) == a.nan \/ b.nan \/ a.val # b.val

Parsed(n) == [ok |-> TRUE, val |-> n]

ParseError == [ok |-> FALSE, val |-> 0]

IsDigit(c) == c \in {"0", "1", "2", "3", "4", "5", "6", "7", "8", "9"}

DigitValue(c) ==
    CASE c = "0" -> 0 [] c = "1" -> 1 [] c = "2" -> 2 [] c = "3" -> 3
      [] c = "4" -> 4 [] c = "5" -> 5 [] c = "6" -> 6 [] c = "7" -> 7
      [] c = "8" -> 8 [] c = "9" -> 9

AllDigits(s) == Len(s) > 0 /\ \A i \in 1..Len(s) : IsDigit(s[i])

RECURSIVE digitsValue(_)
digitsValue(s) ==
    IF s = <<>> THEN 0
    ELSE 10 * digitsValue(SubSeq(s, 1, Len(s) - 1)) + DigitValue(s[Len(s)])

IsSigned(s) == Len(s) > 0 /\ s[1] \in {"+", "-"}

Unsigned(s) == IF IsSigned(s) THEN Tail(s) ELSE s

Signed(s, n) == IF IsSigned(s) /\ s[1] = "-" THEN 0 - n ELSE n

\* strconv.ParseInt(value, 10, 64) on texts of a few digits
ParseInt(s) ==
    IF AllDigits(Unsigned(s))
    THEN Parsed(Signed(s, digitsValue(Unsigned(s))))
    ELSE ParseError

\* strconv.ParseBool
ParseBool(s) ==
    IF s \in {<<"1">>, <<"t">>, <<"T">>, <<"t","r","u","e">>,
              <<"T","R","U","E">>, <<"T","r","u","e">>}
    THEN Parsed(TRUE)
    ELSE IF s \in {<<"0">>, <<"f">>, <<"F">>, <<"f","a","l","s","e">>,
                   <<"F","A","L","S","E">>, <<"F","a","l","s","e">>}
         THEN Parsed(FALSE)
         ELSE [ok |-> FALSE, val |-> FALSE]

\* strconv.ParseFloat accepts "nan" in any case, without a sign
IsNaNText(s) ==
    /\ Len(s) = 3
    /\ s[1] \in {"n", "N"}
    /\ s[2] \in {"a", "A"}
    /\ s[3] \in {"n", "N"}

\* strconv.ParseFloat(value, 64) on whole numbers and NaN
ParseFloat(s) ==
    IF IsNaNText(s) THEN Parsed(NaN)
    ELSE IF AllDigits(Unsigned(s))
         THEN Parsed(Float(Signed(s, digitsValue(Unsigned(s)))))
         ELSE [ok |-> FALSE, val |-> Float(0)]

UnitSeconds(c) == CASE c = "s" -> 1 [] c = "m" -> 60 [] c = "h" -> 3600

\* time.ParseDuration on "0" and on one whole number with a unit s, m or h
ParseDuration(s) ==
    IF Unsigned(s) = <<"0">> THEN Parsed(0)
    ELSE IF /\ Len(Unsigned(s)) >= 2
            /\ AllDigits(SubSeq(Unsigned(s), 1, Len(Unsigned(s)) - 1))
            /\ Unsigned(s)[Len(Unsigned(s))] \in {"s", "m", "h"}
         THEN Parsed(Signed(s, digitsValue(SubSeq(Unsigned(s), 1, Len(Unsigned(s)) - 1))
                                 * UnitSeconds(Unsigned(s)[Len(Unsigned(s))])))
         ELSE ParseError

\* config.go 171-176: an unset variable reads as ""
getEnv(value, defaultValue) == IF value # "" THEN value ELSE defaultValue

\* config.go 178-185
getEnvBool(value, defaultValue) ==
    IF value # <<>> /\ ParseBool(value).ok THEN ParseBool(value).val ELSE defaultValue

\* config.go 187-200
getEnvDuration(value, defaultValue) ==
    IF value # <<>> /\ ParseDuration(value).ok
    THEN ParseDuration(value).val
    ELSE ParseDuration(defaultValue).val

\* config.go 202-209
getEnvInt64(value, defaultValue) ==
    IF value # <<>> /\ ParseInt(value).ok THEN ParseInt(value).val ELSE defaultValue

\* config.go 211-218
getEnvFloat(value, defaultValue) ==
    IF value # <<>> /\ ParseFloat(value).ok THEN ParseFloat(value).val ELSE defaultValue

DefaultCheckInterval == <<"3", "0", "s">>

DefaultMemoryThresholdMB == 1024

\* config.go 66-81
defaultConfigFromEnv(e) ==
    [Namespace            |-> getEnv(e.NAMESPACE, ""),
     AllNamespaces        |-> getEnvBool(e.ALL_NAMESPACES, FALSE),
     CheckInterval        |-> getEnvDuration(e.CHECK_INTERVAL, DefaultCheckInterval),
     MemoryThresholdMB    |-> getEnvInt64(e.MEMORY_THRESHOLD_MB, DefaultMemoryThresholdMB),
     MemoryWarningPercent |-> getEnvFloat(e.MEMORY_WARNING_PERCENT,
                                          Float(DefaultWarningPercent)),
     Output               |-> getEnv(e.OUTPUT, "table")]

\* config.go 94-101
overrideNamespace(c, cl) ==
    [c EXCEPT !.Namespace = IF cl.Namespace # "" THEN cl.Namespace ELSE @,
              !.AllNamespaces = IF cl.AllNamespaces THEN TRUE ELSE @]

\* config.go 112-122
overrideIntervals(c, cl) ==
    [c EXCEPT !.CheckInterval = IF cl.CheckInterval # 0 THEN cl.CheckInterval ELSE @,
              !.MemoryThresholdMB =
                  IF cl.MemoryThresholdMB # 0 THEN cl.MemoryThresholdMB ELSE @,
              !.MemoryWarningPercent =
                  IF FloatNE(cl.MemoryWarningPercent, Float(0))
                  THEN cl.MemoryWarningPercent ELSE @]

\* config.go 124-131
overrideLogging(c, cl) ==
    [c EXCEPT !.Output = IF cl.Output # "" THEN cl.Output ELSE @]

\* config.go 83-92: a nil CLIConfig overrides nothing
applyCLIOverrides(c, optCli) ==
    IF ~Has(optCli) THEN c
    ELSE overrideLogging(overrideIntervals(overrideNamespace(c, Val(optCli)),
                                           Val(optCli)),
                         Val(optCli))

\* config.go 142-146
applyDefaultNamespace(c) ==
    [c EXCEPT !.AllNamespaces = IF c.Namespace = "" /\ ~c.AllNamespaces THEN TRUE ELSE @]

\* config.go 149-167: TRUE when validate returns an error
validate(c) ==
    \/ c.CheckInterval <= 0
    \/ c.MemoryThresholdMB <= 0
    \/ FloatLE(c.MemoryWarningPercent, Float(0))
    \/ FloatGT(c.MemoryWarningPercent, Float(100))
    \/ (c.Output # "table" /\ c.Output # "csv")

\* the configuration LoadWithCLI validates
builtConfig(e, optCli) ==
    applyDefaultNamespace(applyCLIOverrides(defaultConfigFromEnv(e), optCli))

\* config.go 56-64: on an error no configuration is returned
LoadWithCLI(e, optCli) ==
    IF validate(builtConfig(e, optCli))
    THEN [err |-> TRUE, cfg |-> Nil]
    ELSE [err |-> FALSE, cfg |-> Some(builtConfig(e, optCli))]

\* texts the environment variables hold; <<>> and "" are an unset variable
BoolTexts == {<<>>, <<"t","r","u","e">>, <<"f","a","l","s","e">>, <<"y","e","s">>}

DurationTexts == {<<>>, <<"1","m">>, <<"0","s">>}

ThresholdTexts == {<<>>, <<"0">>}

PercentTexts == {<<>>, <<"1","0","0">>, <<"1","0","1">>, <<"N","a","N">>, <<"a","b","c">>}

Environments ==
    [NAMESPACE : {"", "prod"},
     ALL_NAMESPACES : BoolTexts,
     CHECK_INTERVAL : DurationTexts,
     MEMORY_THRESHOLD_MB : ThresholdTexts,
     MEMORY_WARNING_PERCENT : PercentTexts,
     OUTPUT : {"", "json"}]

\* config.go 35-47: the values the flags were parsed into
CLIConfigs ==
    [Namespace : {"", "dev"},
     AllNamespaces : BOOLEAN,
     CheckInterval : {0, -1},
     MemoryThresholdMB : {0, -1},
     MemoryWarningPercent : {Float(0), Float(90), NaN},
     Output : {"", "csv", "xml"}]

InitConfig ==
    /\ PodIdle
    /\ AnnotationIdle
    /\ AnalysisIdle
    /\ CsvIdle
    /\ CollectIdle
    /\ pc = "idle"
    /\ csvHeaderPrinted = FALSE
    /\ cycles = 0
    /\ renders = 0
    /\ cancelled = FALSE
    /\ sigChan = 0
    /\ cfg = Config(DefaultWarningPercent, <<>>, <<>>, "table")
    /\ env \in Environments
    /\ cli \in {Nil} \cup {Some(c) : c \in CLIConfigs}
    /\ loaded = Nil

\* config.Load() and config.LoadWithCLI(cli)
Load ==
    /\ loaded = Nil
    /\ loaded' = Some(LoadWithCLI(env, cli))
    /\ UNCHANGED <<podVars, analysisVars, csvVars, collectVars, mainVars, annotationVars, cfg, env, cli>>

NextConfig == Load

SpecConfig == InitConfig /\ [][NextConfig]_vars

Returned == Has(loaded) /\ ~Val(loaded).err

ReturnedConfig == Val(Val(loaded).cfg)

NamespaceSpecified ==
    \/ env.NAMESPACE # ""
    \/ (Has(cli) /\ Val(cli).Namespace # "")

AllNamespacesSpecified ==
    \/ getEnvBool(env.ALL_NAMESPACES, FALSE)
    \/ (Has(cli) /\ Val(cli).AllNamespaces)

\* C18: a configuration returned by LoadWithCLI never has both a
\* non-empty Namespace and AllNamespaces true: with a namespace specified
\* AllNamespaces is false, and with neither specified AllNamespaces is true
C18_NamespaceExclusive ==
    Returned =>
        /\ ~(ReturnedConfig.Namespace # "" /\ ReturnedConfig.AllNamespaces)
        /\ NamespaceSpecified => ~ReturnedConfig.AllNamespaces
        /\ (~NamespaceSpecified /\ ~AllNamespacesSpecified) => ReturnedConfig.AllNamespaces

\* C19: LoadWithCLI returns an error exactly when the check interval is
\* <= 0, the memory threshold is <= 0, the warning percent is <= 0 or
\* > 100, or the output is neither table nor csv; and every configuration
\* it returns has a warning percent that is a number in (0, 100]
C19_ValidatedPercent ==
    Has(loaded) =>
        /\ Val(loaded).err <=>
              \/ builtConfig(env, cli).CheckInterval <= 0
              \/ builtConfig(env, cli).MemoryThresholdMB <= 0
              \/ FloatLE(builtConfig(env, cli).MemoryWarningPercent, Float(0))
              \/ FloatGT(builtConfig(env, cli).MemoryWarningPercent, Float(100))
              \/ builtConfig(env, cli).Output \notin {"table", "csv"}
        /\ Val(loaded).err => ~Has(Val(loaded).cfg)
        /\ ~Val(loaded).err =>
              /\ ~ReturnedConfig.MemoryWarningPercent.nan
              /\ ReturnedConfig.MemoryWarningPercent.val > 0
              /\ ReturnedConfig.MemoryWarningPercent.val <= 100


\* ---------------------------------------------------------------------
\* internal/monitor/types.go: the annotations of the text report.  A Go
\* string is a sequence of bytes; a character is the sequence of the bytes
\* of its UTF-8 encoding, and an annotation value a sequence of characters.

MaxAnnotationLength == 80

KeptAnnotationLength == 77

\* the characters a, e with acute accent, and the euro sign
CharA == <<97>>

CharEAcute == <<195, 169>>

CharEuro == <<226, 130, 172>>

Ellipsis == <<46, 46, 46>>

RECURSIVE Bytes(_)
\* the bytes of a string given by its characters
Bytes(chars) ==
    IF chars = <<>> THEN <<>>
    ELSE IF Len(chars) = 1 THEN chars[1]
    ELSE Bytes(SubSeq(chars, 1, Len(chars) \div 2))
         \o Bytes(SubSeq(chars, (Len(chars) \div 2) + 1, Len(chars)))

Repeat(ch, n) == [i \in 1..n |-> ch]

\* the less of sort.Strings: byte by byte, a proper prefix first
BytesLess(a, b) ==
    \E k \in 1..Len(b) :
        /\ k <= Len(a) + 1
        /\ \A j \in 1..(k - 1) : a[j] = b[j]
        /\ k = Len(a) + 1 \/ a[k] < b[k]

RECURSIVE insertString(_, _)
insertString(sorted, x) ==
    IF sorted = <<>> THEN <<x>>
    ELSE IF BytesLess(x, Head(sorted)) THEN <<x>> \o sorted
    ELSE <<Head(sorted)>> \o insertString(Tail(sorted), x)

RECURSIVE sortStrings(_)
sortStrings(strs) ==
    IF strs = <<>> THEN <<>>
    ELSE insertString(sortStrings(SubSeq(strs, 1, Len(strs) - 1)), strs[Len(strs)])

\* types.go 395-396: len(value) and value[:77] count bytes
truncateAnnotation(value) ==
    IF Len(value) > MaxAnnotationLength
    THEN SubSeq(value, 1, KeptAnnotationLength) \o Ellipsis
    ELSE value

\* fmt.Sprintf("%s: %s", requestedAnnotation, value)
annotationEntry(key, value) == key \o <<58, 32>> \o value

RECURSIVE annotationEntries(_, _)
\* types.go 391-400: the loop over the requested keys
annotationEntries(podAnnotations, requestedAnnotations) ==
    IF requestedAnnotations = <<>> THEN <<>>
    ELSE (IF MapHas(podAnnotations, Head(requestedAnnotations))
          THEN <<annotationEntry(Head(requestedAnnotations),
                                 truncateAnnotation(
                                     Bytes(MapGet(podAnnotations,
                                                  Head(requestedAnnotations)))))>>
          ELSE <<>>)
         \o annotationEntries(podAnnotations, Tail(requestedAnnotations))

\* types.go 385-404
formatRequestedAnnotations(podAnnotations, requestedAnnotations) ==
    IF Len(requestedAnnotations) = 0 \/ podAnnotations = {}
    THEN <<>>
    ELSE sortStrings(annotationEntries(podAnnotations, requestedAnnotations))

MaxRequested == 2

AnnotationKeys == {<<107, 49>>, <<107, 50>>, <<107, 51>>}

PodAnnotationKeys == {<<107, 49>>, <<107, 50>>}

AsciiValues == {Repeat(CharA, n) : n \in {0, 1, 77, 80, 81, 100}}

\* 40 and 41 characters of two bytes, 27 of three bytes, and 82 characters
\* whose 77th is of two bytes
MultiByteValues ==
    { Repeat(CharEAcute, 40), Repeat(CharEAcute, 41), Repeat(CharEuro, 27),
      Repeat(CharA, 76) \o <<CharEAcute>> \o Repeat(CharA, 5) }

AnnotationTexts == AsciiValues \cup MultiByteValues

AnnotationMaps ==
    UNION {[keys -> AnnotationTexts] : keys \in SUBSET PodAnnotationKeys}

\* a map as the set of its key and value pairs
MapOf(f) == {<<k, f[k]>> : k \in DOMAIN f}

InitAnnotations ==
    /\ PodIdle
    /\ AnalysisIdle
    /\ CsvIdle
    /\ CollectIdle
    /\ ConfigIdle
    /\ pc = "idle"
    /\ csvHeaderPrinted = FALSE
    /\ cycles = 0
    /\ renders = 0
    /\ cancelled = FALSE
    /\ sigChan = 0
    /\ cfg = DefaultConfig
    /\ annotationInput \in
          [podAnnotations : {MapOf(f) : f \in AnnotationMaps},
           requestedAnnotations : SeqsUpTo(AnnotationKeys, MaxRequested)]
    /\ annotationLines = Nil

FormatAnnotations ==
    /\ annotationLines = Nil
    /\ annotationLines' =
          Some(formatRequestedAnnotations(annotationInput.podAnnotations,
                                          annotationInput.requestedAnnotations))
    /\ UNCHANGED <<podVars, analysisVars, csvVars, collectVars, configVars, mainVars,
                   cfg, annotationInput>>

NextAnnotations == FormatAnnotations

SpecAnnotations == InitAnnotations /\ [][NextAnnotations]_vars


PresentRequested ==
    {i \in 1..Len(annotationInput.requestedAnnotations) :
        MapHas(annotationInput.podAnnotations, annotationInput.requestedAnnotations[i])}

RequestedValue(i) ==
    MapGet(annotationInput.podAnnotations, annotationInput.requestedAnnotations[i])

\* the value as the claim shows it: cut by characters
DisplayedByCharacters(chars) ==
    IF Len(chars) > MaxAnnotationLength
    THEN Bytes(SubSeq(chars, 1, KeptAnnotationLength)) \o Ellipsis
    ELSE Bytes(chars)

\* the value cut by bytes
DisplayedByBytes(chars) ==
    IF Len(Bytes(chars)) > MaxAnnotationLength
    THEN SubSeq(Bytes(chars), 1, KeptAnnotationLength) \o Ellipsis
    ELSE Bytes(chars)

\* the lines are exactly one entry per requested key the pod has, each
\* with its value shown by Displayed
LinesShow(Displayed(_)) ==
    /\ Len(Val(annotationLines)) = Cardinality(PresentRequested)
    /\ \A i \in PresentRequested :
          \E j \in 1..Len(Val(annotationLines)) :
              Val(annotationLines)[j] =
                  annotationEntry(annotationInput.requestedAnnotations[i],
                                  Displayed(RequestedValue(i)))
    /\ \A j \in 1..Len(Val(annotationLines)) :
          \E i \in PresentRequested :
              Val(annotationLines)[j] =
                  annotationEntry(annotationInput.requestedAnnotations[i],
                                  Displayed(RequestedValue(i)))

\* C22: every requested annotation key the pod has gives one entry; a
\* value of more than 80 characters is shown as its first 77 characters and
\* "...", a value of at most 80 characters unchanged; a requested key the pod
\* does not have gives no entry
C22_TruncatedByCharacters ==
    Has(annotationLines) => LinesShow(DisplayedByCharacters)

\* counted in bytes, the cut is as the code makes it
AnnotationsCutByBytes ==
    Has(annotationLines) => LinesShow(DisplayedByBytes)

====
